---- MODULE Spec2Model ----
(***************************************************************************)
(* A model of the documentation-search core of wpilib_mcp:                 *)
(*   - the crawler  BaseIndexBuilder.build / _crawl   (utils/indexer.py)   *)
(*   - the response cache  HttpFetcher                (utils/fetch.py)     *)
(*   - the result merger  merge_search_results        (utils/search.py)    *)
(*   - the search index  BM25SearchIndex              (utils/search.py)    *)
(*   - the documentation plugin  WPILibPlugin   (plugins/wpilib/plugin.py) *)
(*   - the tool router  ToolRouter                    (tool_router.py)     *)
(*   - the tokenizer  BM25SearchIndex.tokenize        (utils/search.py)    *)
(*   - the previews  create_preview   (utils/html.py, utils/indexer.py)    *)
(* Each component has its own specification (CrawlSpec, CacheSpec,         *)
(* MergeSpec, SearchSpec, PluginSpec, RouterSpec, TokenizeSpec,            *)
(* PreviewSpec); the variables of the other components stay at their       *)
(* constructed values. CrawlFairSpec is CrawlSpec with the event loop      *)
(* running the build to its end; WideCrawlSpec crawls a site of one more   *)
(* URL with no page limit in the way.                                      *)
(***************************************************************************)
EXTENDS Integers, Sequences, FiniteSets, TLC

\* ------------------------------------------------------------------------
\* Bounds of the model
\* ------------------------------------------------------------------------
NumUrls == 2
MaxSeeds == 2
MaxPagesBound == 2
MaxDepthBound == 2
MaxBuilds == 2
NumFetchUrls == 3
HashSpace == 2
MaxTime == 1
MaxTtl == 2
MaxCacheSize == 2
MaxLists == 2
MaxListLen == 2
MaxItems == 4
MaxScore == 2
MaxK == 4
MaxDocs == 2
MaxCap == 2
MaxEntries == 2
MaxTextLen == 4
MaxLength == 9
MaxTailLen == 5
MaxMatches == 2

\* Program constant: the minimum content length of a retained page.
MinContent == 100

URLs == 1..NumUrls

\* What _extract_page returns for a page without a title or without content.
NoPage == [url |-> 0, title |-> FALSE, clen |-> 0]

VARIABLES
    \* --- crawler (BaseIndexBuilder) ---
    site,           \* the URLs of the site crawled (same host as base_url)
    link_graph,     \* history: per URL the links of its page that should_crawl
                    \* accepts ({} while the page has not been parsed)
    start_urls,     \* the adapter's seed list
    accept,         \* the URLs for which should_crawl answers True
    max_pages,
    max_depth,
    visited,        \* self.visited
    pages,          \* self.pages
    stack,          \* the active _crawl frames, outermost first
    bpc,            \* position of build(): "idle", "seeds", "crawl", "done", "raised"
    seedIdx,        \* index of the seed build() is at
    builds,         \* number of build() calls so far
    fetchCount,     \* history: client.get calls per URL
    maxFetchDepth,  \* history: the deepest recursion depth a fetch happened at
    owed,           \* history: <<page, link>> pairs extracted and not yet attempted
    failed,         \* history: the URLs whose fetch, parse or extraction raised
    unslept,        \* history: a fetch of this build was made and no sleep since
    \* --- response cache (HttpFetcher) ---
    cache_ttl,      \* self.cache_ttl
    max_cache_size, \* self.max_cache_size
    cache,          \* self._cache: key -> entry (NoEntry where the key is absent)
    now,            \* time.time()
    lock,           \* self._lock: the caller holding it, 0 when free
    call,           \* per caller: the position and locals of its fetch() call
    \* --- result merger (merge_search_results) ---
    result_lists,   \* the argument result_lists
    max_results,    \* the argument max_results
    merged,         \* the list returned
    mpc,            \* "idle" before the call, "done" after it
    \* --- search index (BM25SearchIndex) ---
    remove_stop_words,  \* self.remove_stop_words
    items,          \* self._items
    corpus,         \* self._corpus
    bm25,           \* self._bm25 (NoBm25 for None)
    last_build,     \* history: how the last build() ended: "never", "empty",
                    \* "built" or "raised"
    build_arg,      \* history: the items the last build() was called with
    prior_size,     \* history: the length of the corpus the last build() found
    query,          \* the argument query of the search call
    cap,            \* the argument max_results of the search call
    filter_fn,      \* the argument filter_fn (NoFilter in a plain search)
    results,        \* the list the search call returned
    spc,            \* "idle", or how the search call ended: "done" or "raised"
    \* --- documentation plugin (plugins/wpilib/plugin.py Plugin) ---
    versions,       \* config.versions
    artifacts,      \* per version, the index file in the data directory
    plugin_pages,   \* self._pages
    sections_cache, \* self._sections_cache: page count per <<version, language>>
    has_fetcher,    \* self._fetcher is not None
    initialized,    \* self._initialized
    ipc,            \* position of initialize(): "new", "load", "build",
                    \* "sections", "ready" or "raised"
    vidx,           \* index of the version initialize() loads next
    \* --- tool router (ToolRouter) ---
    plugins,        \* self._plugins: per plugin name "absent", "loaded" (in the
                    \* dictionary, not initialized) or "initialized"
    rmethod,        \* the router method under way: "none", "search", "fetch_page"
                    \* or "list_sections"
    rpc,            \* "idle", "loop" (in the loop over the vendors), "plugin"
                    \* (fetch_page awaits the plugin), "done" or "raised"
    rvendors,       \* the argument vendors (None already replaced by ["all"])
    rmax,           \* the argument max_results
    target_vendors, \* the local target_vendors
    rpos,           \* the place of the loop in target_vendors
    all_results,    \* the local all_results of search
    owner,          \* the plugin fetch_page routed the URL to
    trail,          \* history: per plugin the loop came to, what it did
    search_result,  \* what search returned
    fetch_result,   \* what fetch_page returned: "page" or "None"
    sections_result,\* what list_sections returned (the local result)
    \* --- a call of BM25SearchIndex.tokenize ---
    tz_text,        \* the argument text
    tz_stop,        \* self.remove_stop_words of the index called
    tz_tokens,      \* the list returned
    tz_pc,          \* "called" before the call runs, "returned" after it
    \* --- a call of create_preview ---
    pv_impl,        \* whose create_preview ran: "HtmlCleaner", "BaseIndexBuilder",
                    \* or "none" before the call
    pv_text,        \* the argument text (content)
    pv_max_length,  \* the argument max_length
    pv_out,         \* the preview returned
    pv_pc           \* "called" before the call runs, "returned" after it

crawlVars == <<site, link_graph, start_urls, accept, max_pages, max_depth, visited, pages, stack,
               bpc, seedIdx, builds, fetchCount, maxFetchDepth, owed, failed,
               unslept>>

cacheVars == <<cache_ttl, max_cache_size, cache, now, lock, call>>

mergeVars == <<result_lists, max_results, merged, mpc>>

indexVars == <<remove_stop_words, items, corpus, bm25, last_build, build_arg,
               prior_size>>

searchVars == <<query, cap, filter_fn, results, spc>>

pluginVars == <<versions, artifacts, plugin_pages, sections_cache, has_fetcher,
                initialized, ipc, vidx>>

routerVars == <<plugins, rmethod, rpc, rvendors, rmax, target_vendors, rpos,
                all_results, owner, trail, search_result, fetch_result,
                sections_result>>

tokenizeVars == <<tz_text, tz_stop, tz_tokens, tz_pc>>

previewVars == <<pv_impl, pv_text, pv_max_length, pv_out, pv_pc>>

vars == <<crawlVars, cacheVars, mergeVars, indexVars, searchVars, pluginVars,
          routerVars,
          tokenizeVars,
          previewVars>>

\* ------------------------------------------------------------------------
\* Crawler: BaseIndexBuilder
\* ------------------------------------------------------------------------

\* Sequences over S of length lo..hi.
SeqsOf(S, lo, hi) == UNION {[1..n -> S] : n \in lo..hi}

\* The seed lists, up to a renaming of the URLs (the crawler treats URLs alike;
\* should_crawl ranges over every subset): a seed is the first URL, or a URL
\* of an earlier seed, or the next URL not used so far.
SeedLists ==
    {s \in SeqsOf(URLs, 1, MaxSeeds) :
        \A i \in 1..Len(s) : \A u \in 1..(s[i] - 1) : \E j \in 1..(i - 1) : s[j] = u}

\* The adapter's should_crawl: a pure predicate of the URL.
should_crawl(url) == url \in accept

\* A _crawl frame: st is "fetch" (visited, about to client.get), "loop" (in the
\* for-loop over links, before the next link) or "sleep" (the _crawl of the loop
\* variable link was called; asyncio.sleep follows its return). todo holds the
\* links the loop has not reached yet.
Frame(url, depth, st, todo, link) ==
    [url |-> url, depth |-> depth, st |-> st, todo |-> todo, link |-> link]

Top == stack[Len(stack)]

Pop(s) == SubSeq(s, 1, Len(s) - 1)

SetTop(s, f) == [s EXCEPT ![Len(s)] = f]

\* Mutants of Skip: one early return of _crawl dropped or off by one.
SkipVisitedDropped(url, depth) ==
    \/ depth > max_depth
    \/ Len(pages) >= max_pages
    \/ ~should_crawl(url)

SkipDepthOffByOne(url, depth) ==
    \/ depth > max_depth + 1
    \/ url \in visited
    \/ Len(pages) >= max_pages
    \/ ~should_crawl(url)

SkipCapDropped(url, depth) ==
    \/ depth > max_depth
    \/ url \in visited
    \/ ~should_crawl(url)

SkipShouldCrawlDropped(url, depth) ==
    \/ depth > max_depth
    \/ url \in visited
    \/ Len(pages) >= max_pages

\* The four early returns of _crawl, in source order.
Skip(url, depth) ==
    \/ depth > max_depth
    \/ url \in visited
    \/ Len(pages) >= max_pages
    \/ ~should_crawl(url)

\* _crawl(url, depth) called on top of the frames s: either an early return,
\* or the URL is marked visited and a frame awaiting its fetch is pushed.
Enter(s, url, depth) ==
    IF Skip(url, depth)
    THEN /\ stack' = s
         /\ visited' = visited
    ELSE /\ visited' = visited \cup {url}
         /\ stack' = Append(s, Frame(url, depth, "fetch", {}, 0))

\* _extract_page: None without a title or without content.
ExtractPage(url, title, clen) ==
    IF ~title \/ clen = 0 THEN NoPage
    ELSE [url |-> url, title |-> title, clen |-> clen]

\* Mutant of Retained: a page of exactly the minimum length is kept.
RetainedAtThreshold(page) == page # NoPage /\ page.clen >= MinContent

\* The test that guards self.pages.append(page).
Retained(page) == page # NoPage /\ page.clen > MinContent

\* Mutant of Build: build() starts from an empty visited set and page list.
BuildFresh ==
    /\ bpc \in {"idle", "done"}
    /\ builds < MaxBuilds
    /\ bpc' = "seeds"
    /\ seedIdx' = 1
    /\ builds' = builds + 1
    /\ unslept' = FALSE
    /\ visited' = {}
    /\ pages' = <<>>
    /\ UNCHANGED <<site, link_graph, start_urls, accept, max_pages, max_depth, stack,
                   fetchCount, maxFetchDepth, owed, failed>>

\* build(): enters the client context and starts the loop over the seeds.
Build ==
    /\ bpc \in {"idle", "done"}
    /\ builds < MaxBuilds
    /\ bpc' = "seeds"
    /\ seedIdx' = 1
    /\ builds' = builds + 1
    /\ unslept' = FALSE
    /\ UNCHANGED <<site, link_graph, start_urls, accept, max_pages, max_depth, visited, pages, stack,
                   fetchCount, maxFetchDepth, owed, failed>>

\* for start_url in self.start_urls: await self._crawl(start_url, depth=0)
SeedCall ==
    /\ bpc = "seeds"
    /\ seedIdx <= Len(start_urls)
    /\ Enter(stack, start_urls[seedIdx], 0)
    /\ bpc' = "crawl"
    /\ UNCHANGED <<site, link_graph, start_urls, accept, max_pages, max_depth, pages, seedIdx, builds,
                   fetchCount, maxFetchDepth, owed, failed, unslept>>

\* The seed's _crawl has returned: break when the page cap is reached.
SeedReturn ==
    /\ bpc = "crawl"
    /\ stack = <<>>
    /\ IF Len(pages) >= max_pages
       THEN bpc' = "done" /\ seedIdx' = seedIdx
       ELSE bpc' = "seeds" /\ seedIdx' = seedIdx + 1
    /\ UNCHANGED <<site, link_graph, start_urls, accept, max_pages, max_depth, visited, pages, stack,
                   builds, fetchCount, maxFetchDepth, owed, failed, unslept>>

\* The seed list is exhausted: build() returns the artifact.
BuildReturn ==
    /\ bpc = "seeds"
    /\ seedIdx > Len(start_urls)
    /\ bpc' = "done"
    /\ UNCHANGED <<site, link_graph, start_urls, accept, max_pages, max_depth, visited, pages, stack,
                   seedIdx, builds, fetchCount, maxFetchDepth, owed, failed, unslept>>

\* The history a client.get of the top frame's URL leaves.
NoteFetch ==
    /\ fetchCount' = [fetchCount EXCEPT ![Top.url] = @ + 1]
    /\ maxFetchDepth' = IF Top.depth > maxFetchDepth THEN Top.depth ELSE maxFetchDepth
    /\ unslept' = TRUE

\* Mutant of Caught: no except clause, the error leaves every _crawl frame
\* and build().
Propagated ==
    /\ stack' = <<>>
    /\ bpc' = "raised"
    /\ owed' = owed
    /\ failed' = failed \cup {Top.url}

\* What the except clause of _crawl does with an error of this frame: the
\* frame returns normally, its caller goes on.
Caught ==
    /\ stack' = Pop(stack)
    /\ bpc' = bpc
    /\ owed' = owed
    /\ failed' = failed \cup {Top.url}

\* client.get, raise_for_status, the parse or _extract_page raises.
FetchError ==
    /\ stack # <<>>
    /\ Top.st = "fetch"
    /\ NoteFetch
    /\ Caught
    /\ UNCHANGED <<site, link_graph, start_urls, accept, max_pages, max_depth, visited, pages,
                   seedIdx, builds>>

\* The fetch succeeds: the page is extracted, retained if it passes the
\* test, and its links are extracted.
FetchOk ==
    /\ stack # <<>>
    /\ Top.st = "fetch"
    /\ NoteFetch
    /\ \E title \in BOOLEAN, clen \in {0, MinContent, MinContent + 1}, links \in SUBSET site :
         LET page == ExtractPage(Top.url, title, clen) IN
         /\ pages' = IF Retained(page) THEN Append(pages, page) ELSE pages
         /\ stack' = SetTop(stack, Frame(Top.url, Top.depth, "loop", links, 0))
         /\ owed' = owed \cup {<<Top.url, l>> : l \in links}
         /\ link_graph' = [link_graph EXCEPT ![Top.url] = links \cap accept]
    /\ UNCHANGED <<site, start_urls, accept, max_pages, max_depth, visited, bpc,
                   seedIdx, builds, failed>>

\* The fetch succeeds and the page is extracted, but extract_links raises:
\* the page may already have been appended.
LinksError ==
    /\ stack # <<>>
    /\ Top.st = "fetch"
    /\ NoteFetch
    /\ \E title \in BOOLEAN, clen \in {0, MinContent, MinContent + 1} :
         LET page == ExtractPage(Top.url, title, clen) IN
         pages' = IF Retained(page) THEN Append(pages, page) ELSE pages
    /\ Caught
    /\ UNCHANGED <<site, link_graph, start_urls, accept, max_pages, max_depth, visited,
                   seedIdx, builds>>

\* for link in links: await self._crawl(link, depth + 1)
\* (list(set(links)) has no order the caller controls: any link may be next).
LinkCall ==
    /\ stack # <<>>
    /\ Top.st = "loop"
    /\ \E link \in Top.todo :
         /\ Enter(SetTop(stack, Frame(Top.url, Top.depth, "sleep", Top.todo \ {link}, link)),
                  link, Top.depth + 1)
         /\ owed' = owed \ {<<Top.url, link>>}
    /\ UNCHANGED <<site, link_graph, start_urls, accept, max_pages, max_depth, pages, bpc, seedIdx,
                   builds, fetchCount, maxFetchDepth, failed, unslept>>

\* await asyncio.sleep(self.rate_limit), after the link's _crawl returned.
Sleep ==
    /\ stack # <<>>
    /\ Top.st = "sleep"
    /\ stack' = SetTop(stack, Frame(Top.url, Top.depth, "loop", Top.todo, 0))
    /\ unslept' = FALSE
    /\ UNCHANGED <<site, link_graph, start_urls, accept, max_pages, max_depth, visited, pages, bpc,
                   seedIdx, builds, fetchCount, maxFetchDepth, owed, failed>>

\* The loop over the links is exhausted: _crawl returns.
CrawlReturn ==
    /\ stack # <<>>
    /\ Top.st = "loop"
    /\ Top.todo = {}
    /\ stack' = Pop(stack)
    /\ UNCHANGED <<site, link_graph, start_urls, accept, max_pages, max_depth, visited, pages, bpc,
                   seedIdx, builds, fetchCount, maxFetchDepth, owed, failed, unslept>>

CrawlInit ==
    /\ site = URLs
    /\ link_graph = [u \in URLs |-> {}]
    /\ start_urls \in SeedLists
    /\ accept \in SUBSET URLs
    /\ max_pages \in 0..MaxPagesBound
    /\ max_depth \in 0..MaxDepthBound
    /\ visited = {}
    /\ pages = <<>>
    /\ stack = <<>>
    /\ bpc = "idle"
    /\ seedIdx = 1
    /\ builds = 0
    /\ fetchCount = [u \in URLs |-> 0]
    /\ maxFetchDepth = -1
    /\ owed = {}
    /\ failed = {}
    /\ unslept = FALSE

\* A site of one more URL than URLs, for the crawls in which a page is
\* reached along two chains of links of different length.
WideSite == 1..(NumUrls + 1)

\* A builder on the wide site, before build(): any seeds, any should_crawl,
\* any max_depth, and a page cap the site cannot reach.
WideCrawlInit ==
    /\ site = WideSite
    /\ link_graph = [u \in WideSite |-> {}]
    /\ start_urls \in
          {sl \in SeqsOf(WideSite, 1, MaxSeeds) :
              \A i \in 1..Len(sl) : \A u \in 1..(sl[i] - 1) : \E j \in 1..(i - 1) : sl[j] = u}
    /\ accept \in SUBSET WideSite
    /\ max_pages = Cardinality(WideSite) + 1
    /\ max_depth \in 0..MaxDepthBound
    /\ visited = {}
    /\ pages = <<>>
    /\ stack = <<>>
    /\ bpc = "idle"
    /\ seedIdx = 1
    /\ builds = 0
    /\ fetchCount = [u \in WideSite |-> 0]
    /\ maxFetchDepth = -1
    /\ owed = {}
    /\ failed = {}
    /\ unslept = FALSE

\* ------------------------------------------------------------------------
\* Response cache: HttpFetcher
\* ------------------------------------------------------------------------

FetchUrls == 1..NumFetchUrls
Keys == 0..(HashSpace - 1)
\* Two tasks of the event loop call fetch() concurrently.
Callers == {1, 2}

\* _get_cache_key: a fixed-width hash of the URL; distinct URLs may collide.
GetCacheKey(url) == url % HashSpace

\* The text the network serves for a URL.
Payload(url) == url

NoEntry == [content |-> 0, timestamp |-> -1]
CacheEntry(content, timestamp) == [content |-> content, timestamp |-> timestamp]

\* The keys of self._cache.
Dom(ch) == {k \in Keys : ch[k] # NoEntry}

\* del self._cache[k]
Remove(ch, k) == [ch EXCEPT ![k] = NoEntry]

\* Mutant of IsCacheValid: an entry is still served at age = ttl.
IsCacheValidInclusive(entry) == (now - entry.timestamp) <= cache_ttl

\* _is_cache_valid
IsCacheValid(entry) == (now - entry.timestamp) < cache_ttl

\* Mutant of Oldest: the newest entries are the victims.
Newest(ch) == {k \in Dom(ch) : \A j \in Dom(ch) : ch[k].timestamp >= ch[j].timestamp}

\* The keys min(..., key=timestamp) can return: min returns the first key of
\* least timestamp in dict order, which is one of these.
Oldest(ch) == {k \in Dom(ch) : \A j \in Dom(ch) : ch[k].timestamp <= ch[j].timestamp}

\* _evict_oldest: the caches it can leave (the cache itself when empty).
EvictOldest(ch) == IF Dom(ch) = {} THEN {ch} ELSE {Remove(ch, k) : k \in Oldest(ch)}

\* Mutant of AtCapacity: the test is > instead of >=.
AtCapacityOffByOne(ch) == Cardinality(Dom(ch)) > max_cache_size

\* if len(self._cache) >= self.max_cache_size
AtCapacity(ch) == Cardinality(Dom(ch)) >= max_cache_size

\* A caller's record; raced is history: at its store another caller held an
\* unwritten response for the same URL.
Idle == [pc |-> "idle", url |-> 0, use_cache |-> TRUE, content |-> 0,
         src |-> "none", reqs |-> 0, ev |-> -1, raced |-> FALSE]

\* fetch(url, use_cache) is called. With use_cache the caller enters
\* "async with self._lock" (it waits while the lock is held); without, it goes
\* straight to the network.
FetchCall(c) ==
    /\ call[c].pc = "idle"
    /\ \E url \in FetchUrls, uc \in BOOLEAN :
         IF uc
         THEN /\ lock = 0
              /\ lock' = c
              /\ call' = [call EXCEPT ![c] = [Idle EXCEPT !.pc = "lookup", !.url = url]]
         ELSE /\ lock' = lock
              /\ call' = [call EXCEPT ![c] =
                            [Idle EXCEPT !.pc = "net", !.url = url, !.use_cache = FALSE]]
    /\ UNCHANGED <<cache_ttl, max_cache_size, cache, now>>

\* Mutant of Released: the lock stays with a caller that goes to the network.
HeldOverRequest(c, hit) == IF hit THEN 0 ELSE c

\* The end of the first "async with self._lock" block, left by the return
\* inside it or at its end: the lock is free.
Released(c, hit) == 0

\* The lookup under the lock: a valid entry is returned, otherwise the caller
\* leaves the lock and goes to the network.
Lookup(c) ==
    /\ call[c].pc = "lookup"
    /\ lock' = Released(c, GetCacheKey(call[c].url) \in Dom(cache)
                              /\ IsCacheValid(cache[GetCacheKey(call[c].url)]))
    /\ LET k == GetCacheKey(call[c].url) IN
       IF k \in Dom(cache) /\ IsCacheValid(cache[k])
       THEN call' = [call EXCEPT ![c].pc = "done", ![c].src = "cache",
                                 ![c].content = cache[k].content]
       ELSE call' = [call EXCEPT ![c].pc = "net"]
    /\ UNCHANGED <<cache_ttl, max_cache_size, cache, now>>

\* client.get succeeds and raise_for_status passes.
NetOk(c) ==
    /\ call[c].pc = "net"
    /\ call' = [call EXCEPT ![c].content = Payload(call[c].url),
                            ![c].reqs = @ + 1,
                            ![c].pc = IF call[c].use_cache THEN "fetched" ELSE "done",
                            ![c].src = IF call[c].use_cache THEN "none" ELSE "network"]
    /\ UNCHANGED <<cache_ttl, max_cache_size, cache, now, lock>>

\* Mutant of NetFail: the failure drops the URL's entry.
NetFailDropsEntry(c) ==
    /\ call[c].pc = "net"
    /\ call' = [call EXCEPT ![c].pc = "done", ![c].src = "error", ![c].reqs = @ + 1]
    /\ cache' = Remove(cache, GetCacheKey(call[c].url))
    /\ UNCHANGED <<cache_ttl, max_cache_size, now, lock>>

\* client.get or raise_for_status raises: fetch() raises to its caller.
NetFail(c) ==
    /\ call[c].pc = "net"
    /\ call' = [call EXCEPT ![c].pc = "done", ![c].src = "error", ![c].reqs = @ + 1]
    /\ UNCHANGED <<cache_ttl, max_cache_size, cache, now, lock>>

\* The caller enters the second "async with self._lock".
StoreAcquire(c) ==
    /\ call[c].pc = "fetched"
    /\ lock = 0
    /\ lock' = c
    /\ call' = [call EXCEPT ![c].pc = "store"]
    /\ UNCHANGED <<cache_ttl, max_cache_size, cache, now>>

\* Mutant of Written: an entry already held for the key is kept.
WrittenIfAbsent(ch, k, entry) == IF ch[k] # NoEntry THEN ch ELSE [ch EXCEPT ![k] = entry]

\* self._cache[cache_key] = CacheEntry(...)
Written(ch, k, entry) == [ch EXCEPT ![k] = entry]

\* Another caller holds a response for the same URL that it has not stored.
Racing(c) ==
    \E d \in Callers \ {c} :
        /\ call[d].pc = "fetched"
        /\ call[d].url = call[c].url

\* Under the lock: evict when full, insert the entry, return the content.
Store(c) ==
    /\ call[c].pc = "store"
    /\ lock' = 0
    /\ LET k == GetCacheKey(call[c].url) IN
       \E ch \in (IF AtCapacity(cache) THEN EvictOldest(cache) ELSE {cache}) :
         /\ cache' = Written(ch, k, CacheEntry(call[c].content, now))
         /\ call' = [call EXCEPT ![c].pc = "done", ![c].src = "network",
                                 ![c].raced = Racing(c),
                                 ![c].ev = IF Dom(cache) \ Dom(ch) = {} THEN -1
                                           ELSE CHOOSE j \in Dom(cache) \ Dom(ch) : TRUE]
    /\ UNCHANGED <<cache_ttl, max_cache_size, now>>

\* The caller has its answer; it may call again.
Return(c) ==
    /\ call[c].pc = "done"
    /\ call' = [call EXCEPT ![c] = Idle]
    /\ UNCHANGED <<cache_ttl, max_cache_size, cache, now, lock>>

\* invalidate(url)
Invalidate ==
    /\ \E url \in FetchUrls :
         /\ GetCacheKey(url) \in Dom(cache)
         /\ cache' = Remove(cache, GetCacheKey(url))
    /\ UNCHANGED <<cache_ttl, max_cache_size, now, lock, call>>

\* clear_cache()
ClearCache ==
    /\ cache' = [k \in Keys |-> NoEntry]
    /\ UNCHANGED <<cache_ttl, max_cache_size, now, lock, call>>

\* time.time() advances.
Tick ==
    /\ now < MaxTime
    /\ now' = now + 1
    /\ UNCHANGED <<cache_ttl, max_cache_size, cache, lock, call>>

CacheInit ==
    /\ cache_ttl \in 1..MaxTtl
    /\ max_cache_size \in 1..MaxCacheSize
    /\ cache = [k \in Keys |-> NoEntry]
    /\ now = 0
    /\ lock = 0
    /\ call = [c \in Callers |-> Idle]

\* ------------------------------------------------------------------------
\* Result merger: merge_search_results
\* ------------------------------------------------------------------------

\* ScoredResult(item, score)
ScoredResult(item, score) == [item |-> item, score |-> score]

\* Mutant of Lt: the comparison of an ascending sort.
LtAscending(a, b) == a.score < b.score

\* ScoredResult.__lt__: a sorts before b when its score is higher.
Lt(a, b) == a.score > b.score

\* all_results.extend(results), list after list.
RECURSIVE Flatten(_)
Flatten(lists) ==
    IF lists = <<>> THEN <<>> ELSE Head(lists) \o Flatten(Tail(lists))

\* Mutant of InsertSorted: x goes before the elements it ties with.
RECURSIVE InsertBeforeTies(_, _)
InsertBeforeTies(x, s) ==
    IF s = <<>> THEN <<x>>
    ELSE IF ~Lt(Head(s), x) THEN <<x>> \o s
    ELSE <<Head(s)>> \o InsertBeforeTies(x, Tail(s))

\* One insertion of a stable sort: x goes before the first element it is less
\* than, hence after every element it ties with.
RECURSIVE InsertSorted(_, _)
InsertSorted(x, s) ==
    IF s = <<>> THEN <<x>>
    ELSE IF Lt(x, Head(s)) THEN <<x>> \o s
    ELSE <<Head(s)>> \o InsertSorted(x, Tail(s))

\* list.sort(): a stable sort that compares with __lt__ only.
RECURSIVE Sort(_)
Sort(s) ==
    IF s = <<>> THEN <<>>
    ELSE InsertSorted(s[Len(s)], Sort(SubSeq(s, 1, Len(s) - 1)))

\* Mutant of Slice: one element too many.
SliceOneMore(s, k) ==
    IF k >= 0
    THEN SubSeq(s, 1, IF k + 1 < Len(s) THEN k + 1 ELSE Len(s))
    ELSE SubSeq(s, 1, IF Len(s) + k + 1 > 0 THEN Len(s) + k + 1 ELSE 0)

\* The slice s[:k]: a negative k counts from the end.
Slice(s, k) ==
    IF k >= 0
    THEN SubSeq(s, 1, IF k < Len(s) THEN k ELSE Len(s))
    ELSE SubSeq(s, 1, IF Len(s) + k > 0 THEN Len(s) + k ELSE 0)

merge_search_results(lists, k) == Slice(Sort(Flatten(lists)), k)

\* The score lists: up to MaxLists lists of up to MaxListLen scores, MaxItems
\* scores in all.
ScoreLists ==
    {sl \in SeqsOf(SeqsOf(0..MaxScore, 0, MaxListLen), 0, MaxLists) :
        Len(Flatten(sl)) <= MaxItems}

\* The result lists of given scores; an item is named by its list and place.
Results(sl) ==
    [i \in 1..Len(sl) |-> [j \in 1..Len(sl[i]) |-> ScoredResult(<<i, j>>, sl[i][j])]]

\* merge_search_results(result_lists, max_results) runs.
Merge ==
    /\ mpc = "idle"
    /\ merged' = merge_search_results(result_lists, max_results)
    /\ mpc' = "done"
    /\ UNCHANGED <<result_lists, max_results>>

MergeInit ==
    /\ result_lists \in {Results(sl) : sl \in ScoreLists}
    /\ max_results \in -1..MaxK
    /\ merged = <<>>
    /\ mpc = "idle"

\* ------------------------------------------------------------------------
\* Search index: BM25SearchIndex
\* ------------------------------------------------------------------------

\* A text is a sequence of characters. The characters of the model: three
\* letters in both cases, the blank, the joiners tokenize turns into blanks,
\* and a punctuation mark.
LowerChars == {"i", "s", "t"}
UpperChars == {"I", "S", "T"}
JoinerChars == {"_", "-"}
SpaceChars == {" "}
PunctChars == {"."}

\* str.lower() on one character.
ToLower(c) ==
    CASE c = "I" -> "i"
      [] c = "S" -> "s"
      [] c = "T" -> "t"
      [] OTHER -> c

\* The members of STOP_WORDS the letters of the model can spell.
STOP_WORDS == {<<"i", "t">>, <<"i", "s">>, <<"i", "t", "s">>}

\* re.sub(r"([a-z])([A-Z])", r"\1 \2", text): a blank between a lower-case
\* letter and the upper-case letter after it.
RECURSIVE SplitCamel(_)
SplitCamel(text) ==
    IF Len(text) <= 1 THEN text
    ELSE IF text[1] \in LowerChars /\ text[2] \in UpperChars
         THEN <<text[1], " ">> \o SplitCamel(Tail(text))
         ELSE <<text[1]>> \o SplitCamel(Tail(text))

\* re.sub(r"([A-Z]+)([A-Z][a-z])", r"\1 \2", text): in a run of upper-case
\* letters followed by a lower-case letter, a blank before the last letter of
\* the run. prev is the character before text.
RECURSIVE SplitAcronym(_, _)
SplitAcronym(prev, text) ==
    IF text = <<>> THEN <<>>
    ELSE IF /\ prev \in UpperChars
            /\ text[1] \in UpperChars
            /\ Len(text) >= 2
            /\ text[2] \in LowerChars
         THEN <<" ", text[1]>> \o SplitAcronym(text[1], Tail(text))
         ELSE <<text[1]>> \o SplitAcronym(text[1], Tail(text))

\* text.lower(), then the joiners and every character that is neither a word
\* character nor white space become blanks.
Normalize(text) ==
    [i \in 1..Len(text) |->
        IF text[i] \in JoinerChars \cup PunctChars THEN " " ELSE ToLower(text[i])]

\* str.split(): the maximal runs of characters other than white space. cur is
\* the run being read.
RECURSIVE SplitWords(_, _)
SplitWords(text, cur) ==
    IF text = <<>> THEN (IF cur = <<>> THEN <<>> ELSE <<cur>>)
    ELSE IF text[1] \in SpaceChars
         THEN (IF cur = <<>> THEN <<>> ELSE <<cur>>) \o SplitWords(Tail(text), <<>>)
         ELSE SplitWords(Tail(text), Append(cur, text[1]))

\* Mutant of KeepToken: the length of the token is not looked at.
KeepTokenOfAnyLength(t, stop) == ~(stop /\ t \in STOP_WORDS)

\* The condition of the list comprehensions: t not in self.STOP_WORDS and
\* len(t) > 1 when stop words are removed, len(t) > 1 otherwise.
KeepToken(t, stop) == ~(stop /\ t \in STOP_WORDS) /\ Len(t) > 1

\* The list comprehension [t for t in tokens if ...].
RECURSIVE FilterTokens(_, _)
FilterTokens(tokens, stop) ==
    IF tokens = <<>> THEN <<>>
    ELSE IF KeepToken(Head(tokens), stop)
         THEN <<Head(tokens)>> \o FilterTokens(Tail(tokens), stop)
         ELSE FilterTokens(Tail(tokens), stop)

\* tokenize(text) of an index with remove_stop_words = stop.
tokenize(text, stop) ==
    FilterTokens(SplitWords(Normalize(SplitAcronym(" ", SplitCamel(text))), <<>>), stop)

\* The characters of the model.
Chars == LowerChars \cup UpperChars \cup JoinerChars \cup SpaceChars \cup PunctChars

\* The texts tokenize is called with: every text of the model's characters up
\* to a length.
Texts == SeqsOf(Chars, 0, MaxTextLen)

\* A caller runs tokenize(text) on an index.
Tokenize ==
    /\ tz_pc = "called"
    /\ tz_tokens' = tokenize(tz_text, tz_stop)
    /\ tz_pc' = "returned"
    /\ UNCHANGED <<tz_text, tz_stop>>

\* A call of tokenize about to run, on an index of either setting.
TokenizeInit ==
    /\ tz_text \in Texts
    /\ tz_stop \in BOOLEAN
    /\ tz_tokens = <<>>
    /\ tz_pc = "called"

\* No call of tokenize under way.
TokenizeQuiet ==
    /\ tz_text = <<>>
    /\ tz_stop = TRUE
    /\ tz_tokens = <<>>
    /\ tz_pc = "returned"

\* The texts of the indexed items: "tiSi", "Its" and "ti ti".
DocTexts == {<<"t", "i", "S", "i">>, <<"I", "t", "s">>, <<"t", "i", " ", "t", "i">>}

\* The queries: the texts of the items and "st", a word no item holds.
QueryTexts == DocTexts \cup {<<"s", "t">>}

\* Every token of a text of the model.
Vocabulary ==
    UNION {{tokenize(t, stop)[i] : i \in 1..Len(tokenize(t, stop))} :
              t \in QueryTexts, stop \in BOOLEAN}

\* An indexed item: id stands for the object's identity (its place in the list
\* given to build), text is what text_extractor answers for it.
Item(id, text) == [id |-> id, text |-> text]

text_extractor(item) == item.text

\* The lists build() is called with.
ItemLists ==
    {[i \in 1..Len(ts) |-> Item(i, ts[i])] : ts \in SeqsOf(DocTexts, 0, MaxDocs)}

\* The tokens of a corpus.
CorpusTokens(c) == UNION {{c[i][j] : j \in 1..Len(c[i])} : i \in 1..Len(c)}

\* self._bm25 = None
NoBm25 == [docs |-> <<>>, idf |-> [t \in Vocabulary |-> 0]]

\* The weights the scorer can give a token of its corpus: negative, zero or
\* positive.
IdfValues == {-1, 0, 1}

\* BM25Okapi(corpus): the scorers the constructor can return. A scorer keeps
\* the documents it was built from and a weight per token of theirs.
BM25Okapi(c) ==
    {[docs |-> c, idf |-> f] :
        f \in {g \in [Vocabulary -> IdfValues] :
                  \A t \in Vocabulary \ CorpusTokens(c) : g[t] = 0}}

\* The number of times token t occurs in document doc.
TermFreq(t, doc) == Cardinality({j \in 1..Len(doc) : doc[j] = t})

\* get_scores(query_tokens): one score per document of the scorer, the sum
\* over the query tokens of weight times term frequency; a document holding no
\* query token scores 0.
RECURSIVE DocScore(_, _, _)
DocScore(b, doc, qt) ==
    IF qt = <<>> THEN 0
    ELSE b.idf[Head(qt)] * TermFreq(Head(qt), doc) + DocScore(b, doc, Tail(qt))

get_scores(b, qt) == [i \in 1..Len(b.docs) |-> DocScore(b, b.docs[i], qt)]

\* Mutant of NewCorpus: self._corpus is not reset before the loop.
NewCorpusAppended(old, its, stop) ==
    old \o [i \in 1..Len(its) |-> tokenize(text_extractor(its[i]), stop)]

\* self._corpus = [] and the loop of build(): one token list per item, in
\* item order; nothing of the old corpus is kept.
NewCorpus(old, its, stop) ==
    [i \in 1..Len(its) |-> tokenize(text_extractor(its[i]), stop)]

\* build(items, text_extractor). The scorer is built from a corpus that is not
\* empty; its constructor can raise on a corpus without a single token (it
\* averages over the tokens), and then self._bm25 keeps its old value.
build(its) ==
    LET c == NewCorpus(corpus, its, remove_stop_words) IN
    /\ items' = its
    /\ build_arg' = its
    /\ prior_size' = Len(corpus)
    /\ corpus' = c
    /\ IF c # <<>>
       THEN \/ /\ bm25' \in BM25Okapi(c)
               /\ last_build' = "built"
            \/ /\ CorpusTokens(c) = {}
               /\ bm25' = bm25
               /\ last_build' = "raised"
       ELSE /\ bm25' = NoBm25
            /\ last_build' = "empty"
    /\ UNCHANGED remove_stop_words

\* The properties size and is_built.
size == Len(items)
is_built == bm25 # NoBm25

\* What a call leaves: the list returned, or an exception.
Returned(r) == [raised |-> FALSE, value |-> r]
Raised == [raised |-> TRUE, value |-> <<>>]

NoFilter == [on |-> FALSE, ok |-> {}]
\* A predicate over the items: the set of the items it accepts.
Filter(ok) == [on |-> TRUE, ok |-> ok]

\* Mutant of Unbuilt: the early return is missing.
UnbuiltUnchecked == FALSE

\* if self._bm25 is None or not self._items: return []
Unbuilt == bm25 = NoBm25 \/ items = <<>>

\* Mutant of Retain: a score of zero is retained.
RetainNonNegative(score) == score >= 0

\* if score > 0
Retain(score) == score > 0

\* The loop over enumerate(scores) from place i on: the items of retained
\* score (that the predicate accepts) with their scores, in index order.
RECURSIVE Hits(_, _, _)
Hits(scores, f, i) ==
    IF i > Len(scores) THEN <<>>
    ELSE IF Retain(scores[i]) /\ (f.on => items[i].id \in f.ok)
         THEN <<ScoredResult(items[i], scores[i])>> \o Hits(scores, f, i + 1)
         ELSE Hits(scores, f, i + 1)

\* self._items[i] raises IndexError: a retained score at a place self._items
\* does not have.
IndexError(scores) == \E i \in 1..Len(scores) : Retain(scores[i]) /\ i > Len(items)

\* search(query, max_results)
search(q, k) ==
    IF Unbuilt THEN Returned(<<>>)
    ELSE LET query_tokens == tokenize(q, remove_stop_words) IN
         IF query_tokens = <<>> THEN Returned(<<>>)
         ELSE IF bm25 = NoBm25 THEN Raised
         ELSE LET scores == get_scores(bm25, query_tokens) IN
              IF IndexError(scores) THEN Raised
              ELSE Returned(Slice(Sort(Hits(scores, NoFilter, 1)), k))

\* Mutant of search_with_filter: the predicate is applied to the results
\* already cut to max_results.
search_with_filter_after_cut(q, ok, k) ==
    IF search(q, k).raised THEN Raised
    ELSE Returned(SelectSeq(search(q, k).value, LAMBDA r : r.item.id \in ok))

\* Mutant of search_with_filter: the predicate is not applied.
search_with_filter_unfiltered(q, ok, k) == search(q, k)

\* search_with_filter(query, filter_fn, max_results)
search_with_filter(q, ok, k) ==
    IF Unbuilt THEN Returned(<<>>)
    ELSE LET query_tokens == tokenize(q, remove_stop_words) IN
         IF query_tokens = <<>> THEN Returned(<<>>)
         ELSE IF bm25 = NoBm25 THEN Raised
         ELSE LET scores == get_scores(bm25, query_tokens) IN
              IF IndexError(scores) THEN Raised
              ELSE Returned(Slice(Sort(Hits(scores, Filter(ok), 1)), k))

\* The caps of the model; a negative max_results is passed to the slice as
\* it is.
Caps == -1..MaxCap

\* The predicates of the model: every set of items.
Predicates == SUBSET (1..MaxDocs)

\* A caller builds the index.
Build_index ==
    /\ spc = "idle"
    /\ \E its \in ItemLists : build(its)
    /\ UNCHANGED searchVars

\* The call's outcome is recorded.
Outcome(out) ==
    /\ results' = out.value
    /\ spc' = IF out.raised THEN "raised" ELSE "done"

\* A caller runs search(q, k).
Search ==
    /\ spc = "idle"
    /\ \E q \in QueryTexts, k \in Caps :
         /\ query' = q
         /\ cap' = k
         /\ filter_fn' = NoFilter
         /\ Outcome(search(q, k))
    /\ UNCHANGED indexVars

\* A caller runs search_with_filter(q, p, k).
SearchWithFilter ==
    /\ spc = "idle"
    /\ \E q \in QueryTexts, ok \in Predicates, k \in Caps :
         /\ query' = q
         /\ cap' = k
         /\ filter_fn' = Filter(ok)
         /\ Outcome(search_with_filter(q, ok, k))
    /\ UNCHANGED indexVars

\* The caller is done with the result.
SearchDone ==
    /\ spc # "idle"
    /\ query' = <<>>
    /\ cap' = 0
    /\ filter_fn' = NoFilter
    /\ results' = <<>>
    /\ spc' = "idle"
    /\ UNCHANGED indexVars

\* BM25SearchIndex.__init__
IndexInit ==
    /\ remove_stop_words \in BOOLEAN
    /\ items = <<>>
    /\ corpus = <<>>
    /\ bm25 = NoBm25
    /\ last_build = "never"
    /\ build_arg = <<>>
    /\ prior_size = 0
    /\ query = <<>>
    /\ cap = 0
    /\ filter_fn = NoFilter
    /\ results = <<>>
    /\ spc = "idle"

\* The index as constructed by the plugins, no call under way.
IndexQuiet ==
    /\ remove_stop_words = TRUE
    /\ items = <<>>
    /\ corpus = <<>>
    /\ bm25 = NoBm25
    /\ last_build = "never"
    /\ build_arg = <<>>
    /\ prior_size = 0
    /\ query = <<>>
    /\ cap = 0
    /\ filter_fn = NoFilter
    /\ results = <<>>
    /\ spc = "idle"

\* ------------------------------------------------------------------------
\* Previews: HtmlCleaner.create_preview, BaseIndexBuilder.create_preview
\* ------------------------------------------------------------------------

\* The characters of the previewed texts: a letter, the marks that end a
\* sentence, the blank and the line feed.
PreviewChars == {"a", ".", "!", " ", "\n"}
Whitespace == {" ", "\n"}

\* n letters.
Letters(n) == [i \in 1..n |-> "a"]

\* The texts of the model: a run of letters, then any characters.
PreviewTexts ==
    {Letters(n) \o t : n \in 0..MaxLength, t \in SeqsOf(PreviewChars, 0, MaxTailLen)}

\* text[:n] for n >= 0.
Take(text, n) == SubSeq(text, 1, IF n < Len(text) THEN n ELSE Len(text))

\* str.rfind(sep): the highest index (from 0) at which sep occurs, -1 when it
\* does not occur.
rfind(text, sep) ==
    LET at == {i \in 0..(Len(text) - Len(sep)) : SubSeq(text, i + 1, i + Len(sep)) = sep}
    IN  IF at = {} THEN -1 ELSE CHOOSE i \in at : \A j \in at : j <= i

\* str.strip(): the white space at both ends is removed.
RECURSIVE LStrip(_)
LStrip(text) ==
    IF text # <<>> /\ Head(text) \in Whitespace THEN LStrip(Tail(text)) ELSE text

RECURSIVE RStrip(_)
RStrip(text) ==
    IF text # <<>> /\ text[Len(text)] \in Whitespace
    THEN RStrip(SubSeq(text, 1, Len(text) - 1))
    ELSE text

Strip(text) == RStrip(LStrip(text))

Ellipsis == <<".", ".", ".">>

\* The separators HtmlCleaner.create_preview tries, in its order.
SentenceSeparators == <<(<<".", " ">>), (<<".", "\n">>), (<<"!", " ">>), (<<"?", " ">>)>>

\* last_sep > max_length * 0.5 and last_space > max_length * 0.7, in integers.
PastHalf(index, max_length) == 2 * index > max_length
PastSeventy(index, max_length) == 10 * index > 7 * max_length

\* The for loop of HtmlCleaner.create_preview from separator i on: the index
\* of the first separator, in list order, whose last occurrence lies past the
\* half of max_length; -1 when there is none.
RECURSIVE FirstSeparator(_, _, _)
FirstSeparator(truncated, max_length, i) ==
    IF i > Len(SentenceSeparators) THEN -1
    ELSE LET last_sep == rfind(truncated, SentenceSeparators[i]) IN
         IF PastHalf(last_sep, max_length) THEN last_sep
         ELSE FirstSeparator(truncated, max_length, i + 1)

\* HtmlCleaner.create_preview(text, max_length)
HtmlCleaner_create_preview(text, max_length) ==
    IF Len(text) <= max_length THEN text
    ELSE LET truncated == Take(text, max_length)
             last_sep == FirstSeparator(truncated, max_length, 1)
             last_space == rfind(truncated, <<" ">>)
         IN  IF last_sep # -1 THEN Strip(Take(truncated, last_sep + 1))
             ELSE IF PastSeventy(last_space, max_length)
                  THEN Strip(Take(truncated, last_space)) \o Ellipsis
                  ELSE Strip(truncated) \o Ellipsis

\* BaseIndexBuilder.create_preview(content, max_length)
BaseIndexBuilder_create_preview(content, max_length) ==
    IF Len(content) <= max_length THEN content
    ELSE LET preview == Take(content, max_length)
             last_period == rfind(preview, <<".", " ">>)
             last_space == rfind(preview, <<" ">>)
         IN  IF PastHalf(last_period, max_length) THEN Take(preview, last_period + 1)
             ELSE IF PastSeventy(last_space, max_length)
                  THEN Take(preview, last_space) \o Ellipsis
                  ELSE preview \o Ellipsis

\* What extract_content returns: re.sub(r"\s+", " ", text).strip() leaves
\* single blanks between words and none at the ends.
CleanedContent(text) ==
    /\ \A i \in 1..Len(text) : text[i] # "\n"
    /\ \A i \in 1..(Len(text) - 1) : ~(text[i] = " " /\ text[i + 1] = " ")
    /\ Strip(text) = text

\* A caller runs HtmlCleaner.create_preview.
CleanerPreview ==
    /\ pv_pc = "called"
    /\ pv_impl' = "HtmlCleaner"
    /\ pv_out' = HtmlCleaner_create_preview(pv_text, pv_max_length)
    /\ pv_pc' = "returned"
    /\ UNCHANGED <<pv_text, pv_max_length>>

\* _extract_page runs self.create_preview on the content extract_content
\* returned.
BuilderPreview ==
    /\ pv_pc = "called"
    /\ CleanedContent(pv_text)
    /\ pv_impl' = "BaseIndexBuilder"
    /\ pv_out' = BaseIndexBuilder_create_preview(pv_text, pv_max_length)
    /\ pv_pc' = "returned"
    /\ UNCHANGED <<pv_text, pv_max_length>>

\* A call of create_preview about to run.
PreviewInit ==
    /\ pv_impl = "none"
    /\ pv_text \in PreviewTexts
    /\ pv_max_length \in 0..MaxLength
    /\ pv_out = <<>>
    /\ pv_pc = "called"

\* No call of create_preview under way.
PreviewQuiet ==
    /\ pv_impl = "none"
    /\ pv_text = <<>>
    /\ pv_max_length = 0
    /\ pv_out = <<>>
    /\ pv_pc = "returned"

\* ------------------------------------------------------------------------
\* Documentation plugin: Plugin (plugins/wpilib/plugin.py)
\* ------------------------------------------------------------------------

\* The versions a configuration can name.
Versions == {1, 2}

\* The languages of pages ("All" is what a page entry without a language gets)
\* and the languages a search can ask for.
PageLanguages == {"Java", "All"}
AskLanguages == {"Java", "Python"}

\* A page entry of an index file: a well-formed one, or one the parse of which
\* raises (no "url" or no "title" key, not a mapping).
GoodEntry(text, language) == [good |-> TRUE, text |-> text, language |-> language]
BadEntry == [good |-> FALSE, text |-> <<>>, language |-> "All"]

\* The page entries of the model: pages of text "tiSi", a page of text
\* "ti ti", a malformed entry.
Entries ==
    {GoodEntry(<<"t", "i", "S", "i">>, l) : l \in PageLanguages}
        \cup {GoodEntry(<<"t", "i", " ", "t", "i">>, "All"), BadEntry}

\* An index file: absent, not parseable as JSON (or without a usable "pages"
\* list), or a list of page entries.
Missing == [state |-> "missing", entries |-> <<>>]
Unparsable == [state |-> "unparsable", entries |-> <<>>]
Parsed(es) == [state |-> "parsed", entries |-> es]

Artifacts == {Missing, Unparsable} \cup {Parsed(es) : es \in SeqsOf(Entries, 0, MaxEntries)}

\* IndexPage(...): id is the page's place in self._pages; text is what the
\* plugin's text_extractor makes of title, section and content.
IndexPage(id, entry, version) ==
    [id |-> id, text |-> entry.text, version |-> version, language |-> entry.language]

\* The loop of _load_index over the page entries, inside its try: the pages
\* appended before the first entry that raises stay in self._pages.
RECURSIVE ParsePages(_, _, _)
ParsePages(ps, es, version) ==
    IF es = <<>> \/ ~Head(es).good THEN ps
    ELSE ParsePages(Append(ps, IndexPage(Len(ps) + 1, Head(es), version)), Tail(es), version)

\* _load_index(version): self._pages after it. A missing file returns early,
\* an exception is caught and logged.
LoadIndexPages(ps, artifact, version) ==
    IF artifact.state # "parsed" THEN ps
    ELSE ParsePages(ps, artifact.entries, version)

\* _build_sections_cache: the number of pages per version and language (every
\* page of the model is in one section).
BuildSectionsCache(ps) ==
    [key \in Versions \X PageLanguages |->
        Cardinality({i \in 1..Len(ps) : ps[i].version = key[1] /\ ps[i].language = key[2]})]

\* initialize(config): the fetcher is made, the loop over the versions starts.
Initialize ==
    /\ ipc = "new"
    /\ has_fetcher' = TRUE
    /\ ipc' = "load"
    /\ vidx' = 1
    /\ UNCHANGED <<versions, artifacts, plugin_pages, sections_cache, initialized>>
    /\ UNCHANGED <<indexVars, searchVars>>

\* await self._load_index(version) for the next version.
LoadIndex ==
    /\ ipc = "load"
    /\ vidx <= Len(versions)
    /\ plugin_pages' = LoadIndexPages(plugin_pages, artifacts[versions[vidx]], versions[vidx])
    /\ vidx' = vidx + 1
    /\ UNCHANGED <<versions, artifacts, sections_cache, has_fetcher, initialized, ipc>>
    /\ UNCHANGED <<indexVars, searchVars>>

\* The versions are loaded: without a page the search index is left alone.
SkipBuild ==
    /\ ipc = "load"
    /\ vidx > Len(versions)
    /\ plugin_pages = <<>>
    /\ ipc' = "sections"
    /\ UNCHANGED <<versions, artifacts, plugin_pages, sections_cache, has_fetcher,
                   initialized, vidx>>
    /\ UNCHANGED <<indexVars, searchVars>>

\* The versions are loaded: self._search_index.build(items=self._pages, ...);
\* an exception of build leaves initialize().
BuildSearchIndex ==
    /\ ipc = "load"
    /\ vidx > Len(versions)
    /\ plugin_pages # <<>>
    /\ build(plugin_pages)
    /\ ipc' = IF last_build' = "raised" THEN "raised" ELSE "sections"
    /\ UNCHANGED <<versions, artifacts, plugin_pages, sections_cache, has_fetcher,
                   initialized, vidx>>
    /\ UNCHANGED searchVars

\* self._build_sections_cache(); self._initialized = True
FinishInitialize ==
    /\ ipc = "sections"
    /\ sections_cache' = BuildSectionsCache(plugin_pages)
    /\ initialized' = TRUE
    /\ ipc' = "ready"
    /\ UNCHANGED <<versions, artifacts, plugin_pages, has_fetcher, vidx>>
    /\ UNCHANGED <<indexVars, searchVars>>

\* The arguments version = None and language = None of a search.
AnyVersion == 0
AnyLanguage == "None"

\* filter_fn of Plugin.search: the pages of the asked version (any when None)
\* whose language is the asked one or "All" (any when None).
PageFilter(version, language) ==
    {plugin_pages[i].id : i \in {j \in 1..Len(plugin_pages) :
        /\ (version # AnyVersion => plugin_pages[j].version = version)
        /\ (language # AnyLanguage => plugin_pages[j].language \in {language, "All"})}}

\* Plugin.search(query, version, language, max_results): [] while the search
\* index is not built, else the filtered search.
plugin_search(q, version, language, k) ==
    IF ~is_built THEN Returned(<<>>)
    ELSE search_with_filter(q, PageFilter(version, language), k)

\* The caps a plugin search is called with: one result, or the default of 10.
PluginCaps == {1, 10}

\* A caller searches the plugin, before initialize() or after it returned or
\* raised (initialize() has no point at which another task runs).
PluginSearch ==
    /\ spc = "idle"
    /\ ipc \in {"new", "ready", "raised"}
    /\ \E q \in QueryTexts, version \in Versions \cup {AnyVersion},
          language \in AskLanguages \cup {AnyLanguage}, k \in PluginCaps :
         /\ query' = q
         /\ cap' = k
         /\ filter_fn' = Filter(PageFilter(version, language))
         /\ Outcome(plugin_search(q, version, language, k))
    /\ UNCHANGED <<indexVars, pluginVars>>

\* The caller is done with the result.
PluginSearchDone ==
    /\ SearchDone
    /\ UNCHANGED pluginVars

\* Plugin.__init__ and the data directory initialize() will find.
PluginInit ==
    /\ versions \in {<<1>>, <<1, 2>>}
    /\ artifacts \in [Versions -> Artifacts]
    /\ \A v \in Versions : (\A i \in 1..Len(versions) : versions[i] # v) => artifacts[v] = Missing
    /\ plugin_pages = <<>>
    /\ sections_cache = [key \in Versions \X PageLanguages |-> 0]
    /\ has_fetcher = FALSE
    /\ initialized = FALSE
    /\ ipc = "new"
    /\ vidx = 1
    /\ IndexQuiet

\* ------------------------------------------------------------------------
\* Tool router: ToolRouter
\* ------------------------------------------------------------------------

\* The plugins there are, in the order of the dictionary self._plugins.
PluginOrder == <<"wpilib", "rev", "ctre">>
PluginNames == {"wpilib", "rev", "ctre"}

\* The vendor lists a caller asks for; "nope" names no plugin.
VendorRequests ==
    {<<>>, <<"all">>, <<"nope">>, <<"rev">>, <<"ctre", "wpilib">>, <<"rev", "rev">>,
     <<"all", "nope">>, <<"wpilib", "nope", "rev", "ctre">>}

\* The keys of self._plugins, in dictionary order.
PluginKeys == SelectSeq(PluginOrder, LAMBDA v : plugins[v] # "absent")

\* v in self._plugins
IsPlugin(v) == v \in PluginNames /\ plugins[v] # "absent"

\* _resolve_vendors(vendors)
resolve_vendors(vendors) ==
    IF vendors = <<>> \/ (\E i \in 1..Len(vendors) : vendors[i] = "all")
    THEN PluginKeys
    ELSE SelectSeq(vendors, IsPlugin)

\* plugin is None or not plugin.is_initialized
NotUsable(v) == ~IsPlugin(v) \/ plugins[v] # "initialized"

\* A SearchResult of plugin vendor: its n-th, with its score.
SearchResult(vendor, n, score) == [vendor |-> vendor, n |-> n, score |-> score]

\* The scores of the pages of a plugin that match a query and pass its
\* filter, in the order of the plugin's index: each is positive.
PluginAnswers == SeqsOf(1..MaxScore, 0, MaxMatches)

\* The results a plugin's search returns for a list of scores.
PluginResults(vendor, scores) ==
    [j \in 1..Len(scores) |-> SearchResult(vendor, j, scores[j])]

\* [ScoredResult(item=r, score=r.score) for r in results]
Wrap(rs) == [j \in 1..Len(rs) |-> ScoredResult(rs[j], rs[j].score)]

\* [sr.item for sr in merged]
ItemsOf(ms) == [j \in 1..Len(ms) |-> ms[j].item]

\* The matches of a plugin as its index ranks them: search_with_filter sorts
\* them by score, best first.
Ranked(vendor, scores) == ItemsOf(Sort(Wrap(PluginResults(vendor, scores))))

\* Mutant of PluginCap: each plugin is asked for one result less.
PluginCapOneLess(k) == k - 1

\* The cap search passes to each plugin: max_results=max_results.
PluginCap(k) == k

\* plugin.search(query, version, language, max_results): the best
\* max_results of its matches.
PluginSearchResults(vendor, scores, k) == Slice(Ranked(vendor, scores), k)

\* What the loop did with a plugin, and with which value; matches is history:
\* all the matches of a plugin whose search returned.
Step(vendor, what, value) ==
    [vendor |-> vendor, what |-> what, value |-> value, matches |-> <<>>]

\* The section lists a plugin's list_sections can answer with.
SectionAnswers == {<<>>, <<"General">>}

\* The local result of list_sections: per vendor, whether it has an entry.
NoSections == [present |-> FALSE, sections |-> <<>>]
Sections(ss) == [present |-> TRUE, sections |-> ss]

\* search(query, vendors, ...): the vendors are resolved; without a target
\* the call returns [] at once.
RouterSearch ==
    /\ rpc = "idle"
    /\ \E vendors \in VendorRequests, k \in Caps :
         /\ rvendors' = vendors
         /\ rmax' = k
         /\ target_vendors' = resolve_vendors(vendors)
         /\ rpc' = IF resolve_vendors(vendors) = <<>> THEN "done" ELSE "loop"
    /\ rmethod' = "search"
    /\ rpos' = 1
    /\ all_results' = <<>>
    /\ search_result' = <<>>
    /\ UNCHANGED <<plugins, owner, trail, fetch_result, sections_result>>

\* The loop of search or list_sections is at a plugin that is not there or
\* not initialized: continue.
LoopSkip ==
    /\ rpc = "loop"
    /\ rpos <= Len(target_vendors)
    /\ NotUsable(target_vendors[rpos])
    /\ rpos' = rpos + 1
    /\ trail' = Append(trail, Step(target_vendors[rpos], "skipped", <<>>))
    /\ UNCHANGED <<plugins, rmethod, rpc, rvendors, rmax, target_vendors, all_results,
                   owner, search_result, fetch_result, sections_result>>

\* plugin.search returns: its results are wrapped and appended.
SearchPluginReturns ==
    /\ rmethod = "search"
    /\ rpc = "loop"
    /\ rpos <= Len(target_vendors)
    /\ ~NotUsable(target_vendors[rpos])
    /\ \E scores \in PluginAnswers :
         LET rs == PluginSearchResults(target_vendors[rpos], scores, PluginCap(rmax)) IN
         /\ all_results' = Append(all_results, Wrap(rs))
         /\ trail' = Append(trail,
                [Step(target_vendors[rpos], "returned", rs)
                    EXCEPT !.matches = Ranked(target_vendors[rpos], scores)])
    /\ rpos' = rpos + 1
    /\ UNCHANGED <<plugins, rmethod, rpc, rvendors, rmax, target_vendors, owner,
                   search_result, fetch_result, sections_result>>

\* Mutant of Handled: no except clause, the plugin's exception leaves the
\* router method.
Unhandled == rpc' = "raised"

\* What the except clause of the loop does with a plugin's exception: it is
\* logged and the loop goes on.
Handled == rpc' = rpc

\* plugin.search (or the wrapping of what it returned) raises.
SearchPluginRaises ==
    /\ rmethod = "search"
    /\ rpc = "loop"
    /\ rpos <= Len(target_vendors)
    /\ ~NotUsable(target_vendors[rpos])
    /\ Handled
    /\ rpos' = rpos + 1
    /\ trail' = Append(trail, Step(target_vendors[rpos], "raised", <<>>))
    /\ UNCHANGED <<plugins, rmethod, rvendors, rmax, target_vendors, all_results,
                   owner, search_result, fetch_result, sections_result>>

\* The loop of search is over: the lists are merged and the items returned.
SearchMerge ==
    /\ rmethod = "search"
    /\ rpc = "loop"
    /\ rpos > Len(target_vendors)
    /\ search_result' = ItemsOf(merge_search_results(all_results, rmax))
    /\ rpc' = "done"
    /\ UNCHANGED <<plugins, rmethod, rvendors, rmax, target_vendors, rpos,
                   all_results, owner, trail, fetch_result, sections_result>>

\* The plugins that own a URL, among those of the dictionary, in its order.
OwnersOf(owners) == SelectSeq(PluginKeys, LAMBDA v : v \in owners)

\* fetch_page(url): the URL goes to the first plugin that owns it; without
\* one the call returns None. owners are the plugins whose owns_url(url) holds.
RouterFetchPage ==
    /\ rpc = "idle"
    /\ \E owners \in SUBSET PluginNames :
         IF OwnersOf(owners) = <<>>
         THEN /\ rpc' = "done"
              /\ owner' = "none"
         ELSE /\ rpc' = "plugin"
              /\ owner' = Head(OwnersOf(owners))
    /\ rmethod' = "fetch_page"
    /\ fetch_result' = "None"
    /\ UNCHANGED <<plugins, rvendors, rmax, target_vendors, rpos, all_results, trail,
                   search_result, sections_result>>

\* plugin.fetch_page returns a page or None: fetch_page returns it.
FetchPluginReturns ==
    /\ rmethod = "fetch_page"
    /\ rpc = "plugin"
    /\ \E value \in {"page", "None"} :
         /\ fetch_result' = value
         /\ trail' = Append(trail, Step(owner, "returned", <<value>>))
    /\ rpc' = "done"
    /\ UNCHANGED <<plugins, rmethod, rvendors, rmax, target_vendors, rpos,
                   all_results, owner, search_result, sections_result>>

\* plugin.fetch_page raises: the except clause returns None.
FetchPluginRaises ==
    /\ rmethod = "fetch_page"
    /\ rpc = "plugin"
    /\ fetch_result' = "None"
    /\ trail' = Append(trail, Step(owner, "raised", <<>>))
    /\ rpc' = "done"
    /\ UNCHANGED <<plugins, rmethod, rvendors, rmax, target_vendors, rpos,
                   all_results, owner, search_result, sections_result>>

\* list_sections(vendors, ...): the vendors are resolved, result is empty.
RouterListSections ==
    /\ rpc = "idle"
    /\ \E vendors \in VendorRequests :
         /\ rvendors' = vendors
         /\ target_vendors' = resolve_vendors(vendors)
    /\ rmethod' = "list_sections"
    /\ rpc' = "loop"
    /\ rpos' = 1
    /\ sections_result' = [v \in PluginNames |-> NoSections]
    /\ UNCHANGED <<plugins, rmax, all_results, owner, trail, search_result,
                   fetch_result>>

\* plugin.list_sections returns: result[vendor_name] = sections.
ListPluginReturns ==
    /\ rmethod = "list_sections"
    /\ rpc = "loop"
    /\ rpos <= Len(target_vendors)
    /\ ~NotUsable(target_vendors[rpos])
    /\ \E ss \in SectionAnswers :
         /\ sections_result' = [sections_result EXCEPT ![target_vendors[rpos]] = Sections(ss)]
         /\ trail' = Append(trail, Step(target_vendors[rpos], "returned", ss))
    /\ rpos' = rpos + 1
    /\ UNCHANGED <<plugins, rmethod, rpc, rvendors, rmax, target_vendors, all_results,
                   owner, search_result, fetch_result>>

\* plugin.list_sections raises: result[vendor_name] = [].
ListPluginRaises ==
    /\ rmethod = "list_sections"
    /\ rpc = "loop"
    /\ rpos <= Len(target_vendors)
    /\ ~NotUsable(target_vendors[rpos])
    /\ Handled
    /\ sections_result' = [sections_result EXCEPT ![target_vendors[rpos]] = Sections(<<>>)]
    /\ trail' = Append(trail, Step(target_vendors[rpos], "raised", <<>>))
    /\ rpos' = rpos + 1
    /\ UNCHANGED <<plugins, rmethod, rvendors, rmax, target_vendors, all_results,
                   owner, search_result, fetch_result>>

\* The loop of list_sections is over: result is returned.
ListDone ==
    /\ rmethod = "list_sections"
    /\ rpc = "loop"
    /\ rpos > Len(target_vendors)
    /\ rpc' = "done"
    /\ UNCHANGED <<plugins, rmethod, rvendors, rmax, target_vendors, rpos,
                   all_results, owner, trail, search_result, fetch_result,
                   sections_result>>

\* No router call under way.
RouterIdle ==
    /\ rmethod = "none"
    /\ rpc = "idle"
    /\ rvendors = <<>>
    /\ rmax = 0
    /\ target_vendors = <<>>
    /\ rpos = 1
    /\ all_results = <<>>
    /\ owner = "none"
    /\ trail = <<>>
    /\ search_result = <<>>
    /\ fetch_result = "None"
    /\ sections_result = [v \in PluginNames |-> NoSections]

\* The caller is done with what the router method returned.
RouterDone ==
    /\ rpc \in {"done", "raised"}
    /\ rmethod' = "none"
    /\ rpc' = "idle"
    /\ rvendors' = <<>>
    /\ rmax' = 0
    /\ target_vendors' = <<>>
    /\ rpos' = 1
    /\ all_results' = <<>>
    /\ owner' = "none"
    /\ trail' = <<>>
    /\ search_result' = <<>>
    /\ fetch_result' = "None"
    /\ sections_result' = [v \in PluginNames |-> NoSections]
    /\ UNCHANGED plugins

\* ToolRouter(plugins): any plugin may be missing from the dictionary, or in
\* it without being initialized.
RouterInit ==
    /\ plugins \in [PluginNames -> {"absent", "loaded", "initialized"}]
    /\ RouterIdle

\* A router without plugins.
RouterQuiet ==
    /\ plugins = [v \in PluginNames |-> "absent"]
    /\ RouterIdle

\* ------------------------------------------------------------------------
\* Specifications: one per component, the other components at rest
\* ------------------------------------------------------------------------

\* The crawler as constructed, before build().
CrawlQuiet ==
    /\ site = URLs
    /\ link_graph = [u \in URLs |-> {}]
    /\ start_urls = <<1>>
    /\ accept = {}
    /\ max_pages = 0
    /\ max_depth = 0
    /\ visited = {}
    /\ pages = <<>>
    /\ stack = <<>>
    /\ bpc = "idle"
    /\ seedIdx = 1
    /\ builds = 0
    /\ fetchCount = [u \in URLs |-> 0]
    /\ maxFetchDepth = -1
    /\ owed = {}
    /\ failed = {}
    /\ unslept = FALSE

\* The fetcher as constructed, before any call.
CacheQuiet ==
    /\ cache_ttl = 1
    /\ max_cache_size = 1
    /\ cache = [k \in Keys |-> NoEntry]
    /\ now = 0
    /\ lock = 0
    /\ call = [c \in Callers |-> Idle]

\* No merge under way.
MergeQuiet ==
    /\ result_lists = <<>>
    /\ max_results = 0
    /\ merged = <<>>
    /\ mpc = "idle"

\* The plugin as constructed, before initialize().
PluginQuiet ==
    /\ versions = <<1>>
    /\ artifacts = [v \in Versions |-> Missing]
    /\ plugin_pages = <<>>
    /\ sections_cache = [key \in Versions \X PageLanguages |-> 0]
    /\ has_fetcher = FALSE
    /\ initialized = FALSE
    /\ ipc = "new"
    /\ vidx = 1

CrawlNext ==
    \/ Build /\ UNCHANGED <<cacheVars, mergeVars, indexVars, searchVars, pluginVars, routerVars, tokenizeVars, previewVars>>
    \/ SeedCall /\ UNCHANGED <<cacheVars, mergeVars, indexVars, searchVars, pluginVars, routerVars, tokenizeVars, previewVars>>
    \/ SeedReturn /\ UNCHANGED <<cacheVars, mergeVars, indexVars, searchVars, pluginVars, routerVars, tokenizeVars, previewVars>>
    \/ BuildReturn /\ UNCHANGED <<cacheVars, mergeVars, indexVars, searchVars, pluginVars, routerVars, tokenizeVars, previewVars>>
    \/ FetchError /\ UNCHANGED <<cacheVars, mergeVars, indexVars, searchVars, pluginVars, routerVars, tokenizeVars, previewVars>>
    \/ FetchOk /\ UNCHANGED <<cacheVars, mergeVars, indexVars, searchVars, pluginVars, routerVars, tokenizeVars, previewVars>>
    \/ LinksError /\ UNCHANGED <<cacheVars, mergeVars, indexVars, searchVars, pluginVars, routerVars, tokenizeVars, previewVars>>
    \/ LinkCall /\ UNCHANGED <<cacheVars, mergeVars, indexVars, searchVars, pluginVars, routerVars, tokenizeVars, previewVars>>
    \/ Sleep /\ UNCHANGED <<cacheVars, mergeVars, indexVars, searchVars, pluginVars, routerVars, tokenizeVars, previewVars>>
    \/ CrawlReturn /\ UNCHANGED <<cacheVars, mergeVars, indexVars, searchVars, pluginVars, routerVars, tokenizeVars, previewVars>>

CrawlSpecInit == CrawlInit /\ CacheQuiet /\ MergeQuiet /\ IndexQuiet /\ PluginQuiet /\ RouterQuiet /\ TokenizeQuiet /\ PreviewQuiet

CrawlSpec == CrawlSpecInit /\ [][CrawlNext]_vars

\* build() runs on: every await of it returns (the client has a timeout, the
\* sleep is finite), so a step that can be taken is taken.
CrawlFairSpec == CrawlSpecInit /\ [][CrawlNext]_vars /\ WF_vars(CrawlNext)

WideCrawlSpecInit ==
    WideCrawlInit /\ CacheQuiet /\ MergeQuiet /\ IndexQuiet /\ PluginQuiet /\ RouterQuiet /\ TokenizeQuiet /\ PreviewQuiet

WideCrawlSpec == WideCrawlSpecInit /\ [][CrawlNext]_vars

CacheNext ==
    \/ (\E c \in Callers : FetchCall(c)) /\ UNCHANGED <<crawlVars, mergeVars, indexVars, searchVars, pluginVars, routerVars, tokenizeVars, previewVars>>
    \/ (\E c \in Callers : Lookup(c)) /\ UNCHANGED <<crawlVars, mergeVars, indexVars, searchVars, pluginVars, routerVars, tokenizeVars, previewVars>>
    \/ (\E c \in Callers : NetOk(c)) /\ UNCHANGED <<crawlVars, mergeVars, indexVars, searchVars, pluginVars, routerVars, tokenizeVars, previewVars>>
    \/ (\E c \in Callers : NetFail(c)) /\ UNCHANGED <<crawlVars, mergeVars, indexVars, searchVars, pluginVars, routerVars, tokenizeVars, previewVars>>
    \/ (\E c \in Callers : StoreAcquire(c)) /\ UNCHANGED <<crawlVars, mergeVars, indexVars, searchVars, pluginVars, routerVars, tokenizeVars, previewVars>>
    \/ (\E c \in Callers : Store(c)) /\ UNCHANGED <<crawlVars, mergeVars, indexVars, searchVars, pluginVars, routerVars, tokenizeVars, previewVars>>
    \/ (\E c \in Callers : Return(c)) /\ UNCHANGED <<crawlVars, mergeVars, indexVars, searchVars, pluginVars, routerVars, tokenizeVars, previewVars>>
    \/ Invalidate /\ UNCHANGED <<crawlVars, mergeVars, indexVars, searchVars, pluginVars, routerVars, tokenizeVars, previewVars>>
    \/ ClearCache /\ UNCHANGED <<crawlVars, mergeVars, indexVars, searchVars, pluginVars, routerVars, tokenizeVars, previewVars>>
    \/ Tick /\ UNCHANGED <<crawlVars, mergeVars, indexVars, searchVars, pluginVars, routerVars, tokenizeVars, previewVars>>

CacheSpecInit == CacheInit /\ CrawlQuiet /\ MergeQuiet /\ IndexQuiet /\ PluginQuiet /\ RouterQuiet /\ TokenizeQuiet /\ PreviewQuiet

CacheSpec == CacheSpecInit /\ [][CacheNext]_vars

MergeNext ==
    \/ Merge /\ UNCHANGED <<crawlVars, cacheVars, indexVars, searchVars, pluginVars, routerVars, tokenizeVars, previewVars>>

MergeSpecInit == MergeInit /\ CrawlQuiet /\ CacheQuiet /\ IndexQuiet /\ PluginQuiet /\ RouterQuiet /\ TokenizeQuiet /\ PreviewQuiet

MergeSpec == MergeSpecInit /\ [][MergeNext]_vars

SearchNext ==
    \/ Build_index /\ UNCHANGED <<crawlVars, cacheVars, mergeVars, pluginVars, routerVars, tokenizeVars, previewVars>>
    \/ Search /\ UNCHANGED <<crawlVars, cacheVars, mergeVars, pluginVars, routerVars, tokenizeVars, previewVars>>
    \/ SearchWithFilter /\ UNCHANGED <<crawlVars, cacheVars, mergeVars, pluginVars, routerVars, tokenizeVars, previewVars>>
    \/ SearchDone /\ UNCHANGED <<crawlVars, cacheVars, mergeVars, pluginVars, routerVars, tokenizeVars, previewVars>>

SearchSpecInit == IndexInit /\ CrawlQuiet /\ CacheQuiet /\ MergeQuiet /\ PluginQuiet /\ RouterQuiet /\ TokenizeQuiet /\ PreviewQuiet

SearchSpec == SearchSpecInit /\ [][SearchNext]_vars

PluginNext ==
    \/ Initialize /\ UNCHANGED <<crawlVars, cacheVars, mergeVars, routerVars, tokenizeVars, previewVars>>
    \/ LoadIndex /\ UNCHANGED <<crawlVars, cacheVars, mergeVars, routerVars, tokenizeVars, previewVars>>
    \/ SkipBuild /\ UNCHANGED <<crawlVars, cacheVars, mergeVars, routerVars, tokenizeVars, previewVars>>
    \/ BuildSearchIndex /\ UNCHANGED <<crawlVars, cacheVars, mergeVars, routerVars, tokenizeVars, previewVars>>
    \/ FinishInitialize /\ UNCHANGED <<crawlVars, cacheVars, mergeVars, routerVars, tokenizeVars, previewVars>>
    \/ PluginSearch /\ UNCHANGED <<crawlVars, cacheVars, mergeVars, routerVars, tokenizeVars, previewVars>>
    \/ PluginSearchDone /\ UNCHANGED <<crawlVars, cacheVars, mergeVars, routerVars, tokenizeVars, previewVars>>

PluginSpecInit == PluginInit /\ CrawlQuiet /\ CacheQuiet /\ MergeQuiet /\ RouterQuiet /\ TokenizeQuiet /\ PreviewQuiet

PluginSpec == PluginSpecInit /\ [][PluginNext]_vars

RouterNext ==
    \/ RouterSearch /\ UNCHANGED <<crawlVars, cacheVars, mergeVars, indexVars, searchVars, pluginVars, tokenizeVars, previewVars>>
    \/ LoopSkip /\ UNCHANGED <<crawlVars, cacheVars, mergeVars, indexVars, searchVars, pluginVars, tokenizeVars, previewVars>>
    \/ SearchPluginReturns /\ UNCHANGED <<crawlVars, cacheVars, mergeVars, indexVars, searchVars, pluginVars, tokenizeVars, previewVars>>
    \/ SearchPluginRaises /\ UNCHANGED <<crawlVars, cacheVars, mergeVars, indexVars, searchVars, pluginVars, tokenizeVars, previewVars>>
    \/ SearchMerge /\ UNCHANGED <<crawlVars, cacheVars, mergeVars, indexVars, searchVars, pluginVars, tokenizeVars, previewVars>>
    \/ RouterFetchPage /\ UNCHANGED <<crawlVars, cacheVars, mergeVars, indexVars, searchVars, pluginVars, tokenizeVars, previewVars>>
    \/ FetchPluginReturns /\ UNCHANGED <<crawlVars, cacheVars, mergeVars, indexVars, searchVars, pluginVars, tokenizeVars, previewVars>>
    \/ FetchPluginRaises /\ UNCHANGED <<crawlVars, cacheVars, mergeVars, indexVars, searchVars, pluginVars, tokenizeVars, previewVars>>
    \/ RouterListSections /\ UNCHANGED <<crawlVars, cacheVars, mergeVars, indexVars, searchVars, pluginVars, tokenizeVars, previewVars>>
    \/ ListPluginReturns /\ UNCHANGED <<crawlVars, cacheVars, mergeVars, indexVars, searchVars, pluginVars, tokenizeVars, previewVars>>
    \/ ListPluginRaises /\ UNCHANGED <<crawlVars, cacheVars, mergeVars, indexVars, searchVars, pluginVars, tokenizeVars, previewVars>>
    \/ ListDone /\ UNCHANGED <<crawlVars, cacheVars, mergeVars, indexVars, searchVars, pluginVars, tokenizeVars, previewVars>>
    \/ RouterDone /\ UNCHANGED <<crawlVars, cacheVars, mergeVars, indexVars, searchVars, pluginVars, tokenizeVars, previewVars>>

RouterSpecInit ==
    RouterInit /\ CrawlQuiet /\ CacheQuiet /\ MergeQuiet /\ IndexQuiet /\ PluginQuiet /\ TokenizeQuiet /\ PreviewQuiet

RouterSpec == RouterSpecInit /\ [][RouterNext]_vars

TokenizeNext ==
    \/ Tokenize /\ UNCHANGED <<crawlVars, cacheVars, mergeVars, indexVars, searchVars, pluginVars, routerVars, previewVars>>

TokenizeSpecInit ==
    TokenizeInit /\ CrawlQuiet /\ CacheQuiet /\ MergeQuiet /\ IndexQuiet /\ PluginQuiet /\ RouterQuiet /\ PreviewQuiet

PreviewNext ==
    \/ CleanerPreview /\ UNCHANGED <<crawlVars, cacheVars, mergeVars, indexVars, searchVars, pluginVars, routerVars, tokenizeVars>>
    \/ BuilderPreview /\ UNCHANGED <<crawlVars, cacheVars, mergeVars, indexVars, searchVars, pluginVars, routerVars, tokenizeVars>>

PreviewSpecInit ==
    PreviewInit /\ CrawlQuiet /\ CacheQuiet /\ MergeQuiet /\ IndexQuiet /\ PluginQuiet /\ RouterQuiet /\ TokenizeQuiet

TokenizeSpec == TokenizeSpecInit /\ [][TokenizeNext]_vars

PreviewSpec == PreviewSpecInit /\ [][PreviewNext]_vars

\* ------------------------------------------------------------------------
\* Crawler: properties
\* ------------------------------------------------------------------------

Frames == 1..Len(stack)

\* C1: no URL is fetched more than once, failed fetches included; a URL is in
\* visited before its fetch starts (every frame's URL is visited) and every
\* fetched URL is visited.
C1_NoUrlFetchedTwice ==
    /\ \A u \in URLs : fetchCount[u] <= 1
    /\ \A u \in URLs : fetchCount[u] > 0 => u \in visited
    /\ \A i \in Frames : stack[i].url \in visited

\* A page linking to itself was fetched, its self-link was attempted and came
\* back, and the page has still been fetched once.
C1_Witness ==
    /\ stack # <<>>
    /\ Top.st = "sleep"
    /\ Top.link = Top.url
    /\ fetchCount[Top.url] = 1

\* C2: every fetch happens at a depth in 0..max_depth: seeds are at depth 0,
\* the links of a page at depth d are crawled at depth d + 1, and no frame
\* (hence no fetch) exists deeper than max_depth.
C2_FetchDepthBounded ==
    /\ maxFetchDepth <= max_depth
    /\ \A i \in Frames : stack[i].depth = i - 1 /\ stack[i].depth <= max_depth

\* A page was fetched at depth max_depth, and one of its links, not visited,
\* accepted and below the page cap, was attempted and came back unfetched.
C2_Witness ==
    /\ stack # <<>>
    /\ Top.st = "sleep"
    /\ Top.depth = max_depth
    /\ maxFetchDepth = max_depth
    /\ Top.link \notin visited
    /\ Top.link \in accept
    /\ Len(pages) < max_pages

\* C3: at most max_pages records are retained; no fetch starts at the cap;
\* build() does not go on to a further seed at the cap.
C3_PageCap ==
    /\ Len(pages) <= max_pages
    /\ (stack # <<>> /\ Top.st = "fetch") => Len(pages) < max_pages
    /\ (bpc = "seeds" /\ seedIdx > 1) => Len(pages) < max_pages

\* build() returned at a cap of at least one page with a seed left over.
C3_Witness ==
    /\ bpc = "done"
    /\ max_pages > 0
    /\ Len(pages) = max_pages
    /\ seedIdx < Len(start_urls)

\* C4: a URL should_crawl rejects is never fetched and never marked visited.
C4_RejectedNeverFetched ==
    \A u \in URLs \ accept : fetchCount[u] = 0 /\ u \notin visited

\* A rejected link of a fetched page was attempted, within the depth and the
\* page cap, and came back; and a rejected seed was attempted.
C4_Witness ==
    /\ stack # <<>>
    /\ Top.st = "sleep"
    /\ Top.link \notin accept
    /\ Top.depth < max_depth
    /\ Len(pages) < max_pages
    /\ start_urls[1] \notin accept

\* C5: an error of one URL never leaves _crawl or build(); when build() has
\* returned, every link extracted from a fetched page has been attempted and
\* every seed has been attempted unless the page cap stopped the loop.
C5_ErrorsSkipOnlyTheUrl ==
    /\ bpc # "raised"
    /\ bpc = "done" =>
          /\ owed = {}
          /\ seedIdx > Len(start_urls) \/ Len(pages) >= max_pages

\* The first seed's fetch raised and the second seed is being fetched.
C5_Witness ==
    /\ bpc = "crawl"
    /\ seedIdx = 2
    /\ start_urls[1] \in failed
    /\ stack # <<>>
    /\ Top.st = "fetch"
    /\ Top.url = start_urls[2]

\* C15: a record is appended to pages only if a title was extracted and the
\* content is longer than the minimum threshold of 100 characters: every
\* record in pages has both, and pages changes only by appending such a record.
C15_OnlyTitledLongPagesKept ==
    /\ [](\A i \in 1..Len(pages) : pages[i].title /\ pages[i].clen > MinContent)
    /\ [][pages' # pages =>
            /\ Len(pages') = Len(pages) + 1
            /\ SubSeq(pages', 1, Len(pages)) = pages
            /\ pages'[Len(pages')].title
            /\ pages'[Len(pages')].clen > MinContent]_vars

\* One fetched page was kept, and another was fetched and extracted without an
\* error and left no record.
C15_Witness ==
    /\ Len(pages) >= 1
    /\ \E u \in URLs :
         /\ fetchCount[u] = 1
         /\ u \notin failed
         /\ \A i \in 1..Len(pages) : pages[i].url # u

\* C20: between any two successive fetch attempts of one crawl a sleep of
\* rate_limit seconds takes place: no fetch is made while the previous fetch of
\* the build has not been followed by a sleep.
C20_DelayBetweenFetches ==
    [][(\E u \in URLs : fetchCount'[u] > fetchCount[u]) => ~unslept]_vars

\* C29: the records of pages have pairwise distinct URLs, each in visited;
\* visited and pages only grow, over every build() of the instance; from the
\* second build() on no fetch is made and pages stays as it is.
C29_SecondBuildFetchesNothing ==
    /\ [](\A i, j \in 1..Len(pages) : pages[i].url = pages[j].url => i = j)
    /\ [](\A i \in 1..Len(pages) : pages[i].url \in visited)
    /\ [][/\ visited \subseteq visited'
          /\ Len(pages) <= Len(pages')
          /\ SubSeq(pages', 1, Len(pages)) = pages]_vars
    /\ [][builds' >= 2 =>
            /\ fetchCount' = fetchCount
            /\ pages' = pages
            /\ visited' = visited]_vars

\* A second build() has returned on an instance whose first build() fetched
\* two pages and kept one, below the page cap.
C29_Witness ==
    /\ builds = 2
    /\ bpc = "done"
    /\ Len(pages) = 1
    /\ Len(pages) < max_pages
    /\ \A u \in URLs : fetchCount[u] = 1

\* The URLs a chain of links leads to from the URLs S, over the pages parsed
\* so far and the links should_crawl accepts.
RECURSIVE LinkClosure(_)
LinkClosure(S) ==
    LET T == S \cup UNION {link_graph[u] : u \in S}
    IN  IF T = S THEN S ELSE LinkClosure(T)

\* The accepted URLs reachable from the seeds.
ReachableAccepted ==
    LinkClosure({start_urls[i] : i \in 1..Len(start_urls)} \cap accept)

RECURSIVE Fetches(_)
Fetches(S) ==
    IF S = {} THEN 0
    ELSE LET u == CHOOSE x \in S : TRUE IN fetchCount[u] + Fetches(S \ {u})

\* C27: the fetches made never outnumber the accepted URLs reachable from the
\* seeds, and every build() that has started returns.
C27_BuildTerminates ==
    /\ [](Fetches(site) <= Cardinality(ReachableAccepted))
    /\ (bpc \in {"seeds", "crawl"}) ~> (bpc = "done")

\* build() has returned from a site whose first page links to itself and to
\* the second, which failed to load; each was fetched once.
C27_Witness ==
    /\ bpc = "done"
    /\ link_graph[1] = {1, 2}
    /\ 2 \in failed
    /\ fetchCount[1] = 1
    /\ fetchCount[2] = 1
    /\ Cardinality(ReachableAccepted) = 2

\* The URLs at most d links away from the URLs S, over the pages parsed and
\* the links should_crawl accepts.
RECURSIVE Within(_, _)
Within(S, d) ==
    IF d = 0 THEN S
    ELSE Within(S \cup UNION {link_graph[u] : u \in S}, d - 1)

\* The accepted URLs at most max_depth links away from an accepted seed.
WithinMaxDepth ==
    Within({start_urls[i] : i \in 1..Len(start_urls)} \cap accept, max_depth)

\* C28: when build() has returned, nothing has failed and the page cap was
\* not reached, every accepted URL at most max_depth links away from a seed
\* has been fetched.
C28_ReachableWithinDepthFetched ==
    (bpc = "done" /\ failed = {} /\ Len(pages) < max_pages) =>
        \A u \in WithinMaxDepth : fetchCount[u] >= 1

\* ------------------------------------------------------------------------
\* Response cache: properties
\* ------------------------------------------------------------------------

KeyOf(c) == GetCacheKey(call[c].url)

\* The store holds an entry for the key that is younger than the TTL.
Live(k) == k \in Dom(cache) /\ now - cache[k].timestamp < cache_ttl

\* C6: a caching fetch is answered from the store, with the stored payload and
\* without a network request, exactly when the store holds an entry for the
\* URL's key with now - timestamp < ttl; otherwise it goes to the network.
C6_HitIffLiveEntry ==
    [][\A c \in Callers :
         (call[c].pc = "lookup" /\ call'[c].pc # "lookup") =>
            IF Live(KeyOf(c))
            THEN /\ call'[c].pc = "done"
                 /\ call'[c].src = "cache"
                 /\ call'[c].content = cache[KeyOf(c)].content
                 /\ call'[c].reqs = 0
            ELSE call'[c].pc = "net"]_vars

\* One caller was answered from the store while the other, having found an
\* entry of age >= ttl for its key, is at the network.
C6_Witness ==
    \E c, d \in Callers :
        /\ call[c].pc = "done"
        /\ call[c].src = "cache"
        /\ call[d].pc = "net"
        /\ call[d].use_cache
        /\ KeyOf(d) \in Dom(cache)
        /\ now - cache[KeyOf(d)].timestamp >= cache_ttl
        /\ cache[KeyOf(d)].timestamp < now

\* C7: a store into a full cache removes, before the insertion, exactly one
\* entry, one of least timestamp; every other entry stays as it was.
C7_EvictsOneOldest ==
    [][\A c \in Callers :
         (call[c].pc = "store" /\ call'[c].pc # "store"
            /\ Cardinality(Dom(cache)) = max_cache_size) =>
            \E k \in Dom(cache) :
                /\ \A j \in Dom(cache) : cache[k].timestamp <= cache[j].timestamp
                /\ Dom(cache') = (Dom(cache) \ {k}) \cup {KeyOf(c)}
                /\ \A j \in Dom(cache) \ {k, KeyOf(c)} : cache'[j] = cache[j]
                /\ cache'[KeyOf(c)] = CacheEntry(call[c].content, now)]_vars

\* A store into a full cache of two entries with different timestamps evicted
\* the entry of another key.
C7_Witness ==
    \E c \in Callers :
        /\ call[c].pc = "done"
        /\ call[c].src = "network"
        /\ call[c].ev # -1
        /\ call[c].ev # KeyOf(c)
        /\ max_cache_size > 1

\* C8: the cache never holds more than max_cache_size entries.
C8_SizeBound == Cardinality(Dom(cache)) <= max_cache_size

\* The cache is full while both callers hold a response they are about to
\* store.
C8_Witness ==
    /\ Cardinality(Dom(cache)) = max_cache_size
    /\ \A c \in Callers : call[c].pc \in {"fetched", "store"}
    /\ \E c, d \in Callers : KeyOf(c) # KeyOf(d)

\* C9: a failed network request makes fetch() raise after that one request,
\* without a response and without having stored; the failure leaves the store
\* as it was, as does every step of a call other than its store step.
C9_FailureLeavesCache ==
    /\ [](\A c \in Callers :
            /\ call[c].reqs <= 1
            /\ call[c].src = "error" =>
                  /\ call[c].pc = "done"
                  /\ call[c].reqs = 1
                  /\ call[c].content = 0
                  /\ call[c].ev = -1)
    /\ [][\A c \in Callers :
            (call[c].pc = "net" /\ call'[c].src = "error") => cache' = cache]_vars
    /\ [][\A c \in Callers :
            (call'[c] # call[c] /\ call[c].pc # "store") => cache' = cache]_vars

\* A caching fetch raised while the store holds an expired entry for its key.
C9_Witness ==
    \E c \in Callers :
        /\ call[c].pc = "done"
        /\ call[c].src = "error"
        /\ call[c].use_cache
        /\ KeyOf(c) \in Dom(cache)
        /\ now - cache[KeyOf(c)].timestamp >= cache_ttl

\* C23: two overlapping calls for one URL are not deduplicated. When a caller
\* stores its response after another caller, both having made their request
\* before either stored, each has made one request, and the store then holds
\* for the URL's key the entry of the later writer.
C23_BothFetchLaterWriterWins ==
    [][\A c, d \in Callers :
         (/\ c # d
          /\ call[c].pc = "store"
          /\ call'[c].pc = "done"
          /\ call[d].pc = "done"
          /\ call[d].raced
          /\ call[d].url = call[c].url) =>
            /\ call[c].reqs = 1
            /\ call[d].reqs = 1
            /\ call[d].src = "network"
            /\ KeyOf(c) \in Dom(cache')
            /\ cache'[KeyOf(c)] = CacheEntry(Payload(call[c].url), now)]_vars

\* Both callers went to the network for one URL before either stored; the
\* first stored, time passed, the second stored over the first's entry.
C23_Witness ==
    \E c, d \in Callers :
        /\ c # d
        /\ call[c].pc = "done" /\ call[d].pc = "done"
        /\ call[c].src = "network" /\ call[d].src = "network"
        /\ call[c].url = call[d].url
        /\ call[d].raced /\ ~call[c].raced
        /\ call[c].reqs = 1 /\ call[d].reqs = 1
        /\ max_cache_size > 1
        /\ now > 0
        /\ cache[KeyOf(c)] = CacheEntry(Payload(call[c].url), now)

\* C24: the lock is held by a caller only in its lookup step and in its store
\* step; no caller holds it while its request is in flight, so another
\* caller can take the lock meanwhile.
C24_LockNotHeldOverRequest ==
    /\ lock # 0 => call[lock].pc \in {"lookup", "store"}
    /\ \A c \in Callers :
         /\ call[c].pc \in {"lookup", "store"} => lock = c
         /\ call[c].pc \in {"net", "fetched"} => lock # c

\* While one caller's request is in flight, the other holds the lock in its
\* store step for another key, or was answered from the store.
C24_Witness ==
    \E c, d \in Callers :
        /\ call[c].pc = "net"
        /\ call[c].use_cache
        /\ KeyOf(c) # KeyOf(d)
        /\ \/ call[d].pc = "store" /\ lock = d
           \/ call[d].pc = "done" /\ call[d].src = "cache"

\* A step of invalidate or clear_cache: the store changes and no call moves.
Dropped == call' = call /\ cache' # cache

\* C25: an entry leaves the store only by the eviction of a store that would
\* otherwise exceed the size bound, by invalidate or by clear_cache; a store
\* for a key the store already holds removes no entry of another key.
C25_OnlyEvictionOrInvalidation ==
    [][\A k \in Dom(cache) :
         cache'[k] = NoEntry =>
            \/ Dropped
            \/ \E c \in Callers :
                  /\ call[c].pc = "store"
                  /\ call'[c].pc = "done"
                  /\ KeyOf(c) \notin Dom(cache)
                  /\ Cardinality(Dom(cache)) >= max_cache_size]_vars

\* ------------------------------------------------------------------------
\* Search index: properties
\* ------------------------------------------------------------------------

\* The search call's query as the index tokenizes it, and the score the
\* scorer gives each of its documents for it.
QueryTokens == tokenize(query, remove_stop_words)
Scores == get_scores(bm25, QueryTokens)

\* C11: with a cap k >= 0, search and search_with_filter return at most k
\* results.
C11_AtMostKResults ==
    (spc = "done" /\ cap >= 0) => Len(results) <= cap

\* A filtered search returned exactly its cap of results, and a larger cap
\* would have returned more.
C11_Witness ==
    /\ spc = "done"
    /\ filter_fn.on
    /\ cap >= 1
    /\ Len(results) = cap
    /\ Len(search_with_filter(query, filter_fn.ok, cap + 1).value) > cap

\* C12: every item search_with_filter returns is an indexed item that the
\* predicate accepts.
C12_FilterRespected ==
    (spc = "done" /\ filter_fn.on) =>
        \A j \in 1..Len(results) :
            /\ results[j].item.id \in filter_fn.ok
            /\ \E i \in 1..Len(items) : items[i] = results[j].item

\* A filtered search returned a result while an item the predicate rejects
\* scores higher than every item it accepts.
C12_Witness ==
    /\ spc = "done"
    /\ filter_fn.on
    /\ results # <<>>
    /\ \E i \in 1..Len(items) :
         /\ items[i].id \notin filter_fn.ok
         /\ \A j \in 1..Len(items) :
              items[j].id \in filter_fn.ok => Scores[i] > Scores[j]

\* C13: a search on an index never built or last built from no items, and a
\* search whose query has no token, returns the empty list and raises nothing.
C13_EmptyNotError ==
    (spc # "idle" /\ (last_build \in {"never", "empty"} \/ QueryTokens = <<>>)) =>
        (spc = "done" /\ results = <<>>)

\* A search with a query of stop words only came back empty from an index
\* that answers another query.
C13_Witness ==
    /\ spc = "done"
    /\ last_build = "built"
    /\ query # <<>>
    /\ QueryTokens = <<>>
    /\ results = <<>>
    /\ \E q \in QueryTexts : search(q, 1).value # <<>>

\* C14: search returns results of strictly positive score in non-increasing
\* score order, each an indexed item with the score the scorer gave it, none
\* twice; with a cap k >= 0 they are min(k, number of positively scored items)
\* many, and no positively scored item left out scores higher than one returned.
C14_PositiveDescending ==
    (spc = "done" /\ ~filter_fn.on) =>
        LET pos == {i \in 1..Len(Scores) : Scores[i] > 0}
            got == {results[j].item.id : j \in 1..Len(results)}
        IN  /\ \A j \in 1..Len(results) : results[j].score > 0
            /\ \A j \in 1..(Len(results) - 1) : results[j].score >= results[j + 1].score
            /\ \A j \in 1..Len(results) :
                 /\ results[j].item.id \in pos
                 /\ results[j].item = items[results[j].item.id]
                 /\ results[j].score = Scores[results[j].item.id]
            /\ Cardinality(got) = Len(results)
            /\ cap >= 0 =>
                 Len(results) = (IF cap < Cardinality(pos) THEN cap ELSE Cardinality(pos))
            /\ \A i \in pos \ got : \A j \in 1..Len(results) : Scores[i] <= results[j].score

\* A search returned a result and left out an item that holds a token of the
\* query and does not score above zero.
C14_Witness ==
    /\ spc = "done"
    /\ ~filter_fn.on
    /\ Len(results) = 1
    /\ \E i \in 1..Len(items) :
         /\ Scores[i] <= 0
         /\ \E j \in 1..Len(QueryTokens) : TermFreq(QueryTokens[j], corpus[i]) > 0

Tokens == {tz_tokens[i] : i \in 1..Len(tz_tokens)}

\* C21: tokenize returns no token of length <= 1 and, on an index that removes
\* stop words, no stop word; the tokens are tested after the splitting of
\* camel case and the lower-casing, so no token is a stop word written with
\* capitals either.
C21_NoShortNoStopWord ==
    tz_pc = "returned" =>
        \A t \in Tokens :
            /\ Len(t) > 1
            /\ tz_stop => t \notin STOP_WORDS
            /\ tz_stop => [j \in 1..Len(t) |-> ToLower(t[j])] \notin STOP_WORDS
            /\ \A j \in 1..Len(t) : t[j] \in LowerChars

\* "ItS" splits into the stop word "it" and the single letter "s": nothing is
\* returned for it, while "stIt" keeps its first word.
C21_Witness ==
    /\ tz_pc = "returned"
    /\ tz_stop
    /\ \/ tz_text = <<"I", "t", "S">> /\ tz_tokens = <<>>
       \/ tz_text = <<"s", "t", "I", "t">> /\ tz_tokens = <<(<<"s", "t">>)>>

\* The untruncated result of search(query): a cap no result list exceeds.
Untruncated == search(query, Len(bm25.docs))

\* The results of r that the predicate of the call accepts, in r's order.
Accepted(r) == SelectSeq(r, LAMBDA x : x.item.id \in filter_fn.ok)

\* C26: for a cap k >= 0, search_with_filter(q, p, k) is the first k of the
\* untruncated results of search(q) that satisfy p, and raises when search
\* raises; with a predicate every item satisfies it is search(q, k).
C26_FilterBeforeTruncation ==
    (spc # "idle" /\ filter_fn.on /\ cap >= 0) =>
        /\ spc = "raised" <=> Untruncated.raised
        /\ spc = "done" => results = Slice(Accepted(Untruncated.value), cap)
        /\ (spc = "done" /\ \A i \in 1..Len(items) : items[i].id \in filter_fn.ok) =>
              results = search(query, cap).value

\* A filtered search of cap 1 returned an item that is not the best match of
\* the query: the best match does not satisfy the predicate.
C26_Witness ==
    /\ spc = "done"
    /\ filter_fn.on
    /\ cap = 1
    /\ Len(results) = 1
    /\ Len(Untruncated.value) = 2
    /\ results[1] = Untruncated.value[2]
    /\ results[1].score < Untruncated.value[1].score

\* ------------------------------------------------------------------------
\* Previews: properties
\* ------------------------------------------------------------------------

\* What ends a sentence for the implementation that ran: the separators it
\* looks for, a punctuation mark with white space after it.
SentenceEndings ==
    IF pv_impl = "BaseIndexBuilder" THEN {<<".", " ">>}
    ELSE {SentenceSeparators[i] : i \in 1..Len(SentenceSeparators)}

\* The indices (from 0) of the sentence-ending punctuation before the cutoff.
SentenceEnds(text, max_len) ==
    {i \in 0..(max_len - 2) : SubSeq(text, i + 1, i + 2) \in SentenceEndings}

\* The indices (from 0) of the white space before the cutoff.
Blanks(text, max_len) == {i \in 0..(max_len - 1) : text[i + 1] \in Whitespace}

Last(S) == CHOOSE i \in S : \A j \in S : j <= i

\* The preview of a text longer than max_len: cut after the last sentence end
\* before the cutoff when that lies past half of max_len; else cut at the last
\* white space before the cutoff when that lies past 70% of max_len, with an
\* ellipsis; else the first max_len characters with an ellipsis.
BoundaryPreview(text, max_len) ==
    LET ends == SentenceEnds(text, max_len)
        blanks == Blanks(text, max_len)
    IN  IF ends # {} /\ PastHalf(Last(ends), max_len)
        THEN [cut |-> Take(text, Last(ends) + 1), mark |-> <<>>]
        ELSE IF blanks # {} /\ PastSeventy(Last(blanks), max_len)
             THEN [cut |-> Take(text, Last(blanks)), mark |-> Ellipsis]
             ELSE [cut |-> Take(text, max_len), mark |-> Ellipsis]

\* C22: a text no longer than max_len is returned as it is; a longer one is
\* cut at the nearest sentence end before the cutoff past 50% of max_len,
\* else at the nearest white space past 70% of max_len with an ellipsis, else
\* at max_len with an ellipsis. White space at the ends of the cut text may
\* be trimmed.
C22_PreviewCutsAtNearestBoundary ==
    pv_pc = "returned" /\ pv_impl # "none" =>
        IF Len(pv_text) <= pv_max_length THEN pv_out = pv_text
        ELSE LET b == BoundaryPreview(pv_text, pv_max_length)
             IN  pv_out \in {b.cut \o b.mark, Strip(b.cut) \o b.mark}

\* ------------------------------------------------------------------------
\* Documentation plugin: properties
\* ------------------------------------------------------------------------

\* An index file that is there and is not a well-formed index: it does not
\* parse, or one of its page entries is malformed.
Corrupt(artifact) ==
    \/ artifact.state = "unparsable"
    \/ /\ artifact.state = "parsed"
       /\ \E i \in 1..Len(artifact.entries) : ~artifact.entries[i].good

\* C16: when the index files of a source are missing or corrupt, initialize()
\* raises nothing and leaves the source with no page and a search index that
\* is not built, and every later search on the source returns the empty list.
C16_CorruptLoadsEmpty ==
    (/\ ipc \in {"ready", "raised"}
     /\ \A i \in 1..Len(versions) :
          artifacts[versions[i]] = Missing \/ Corrupt(artifacts[versions[i]]))
    => /\ ipc = "ready"
       /\ plugin_pages = <<>>
       /\ ~is_built
       /\ spc # "idle" => (spc = "done" /\ results = <<>>)

\* ------------------------------------------------------------------------
\* Tool router: properties
\* ------------------------------------------------------------------------

\* The lists the plugins returned to the search under way, in call order.
ReturnedLists ==
    LET rs == SelectSeq(trail, LAMBDA st : st.what = "returned")
    IN  [i \in 1..Len(rs) |-> Wrap(rs[i].value)]

\* The last thing the loop did with plugin v, other than skipping it.
LastStep(v) ==
    LET at == {i \in 1..Len(trail) : trail[i].vendor = v /\ trail[i].what # "skipped"}
    IN  IF at = {} THEN Step(v, "skipped", <<>>)
        ELSE trail[CHOOSE i \in at : \A j \in at : j <= i]

\* C18: no router method ends with an exception of a plugin. search returns
\* the merge of what the other plugins returned; fetch_page returns None when
\* its plugin raises; list_sections maps a plugin that raises to the empty
\* list; vendor names that name no plugin are dropped and plugins not
\* initialized are skipped.
C18_PluginErrorsContained ==
    /\ rpc # "raised"
    /\ (rmethod \in {"search", "list_sections"}) =>
         /\ \A i \in 1..Len(target_vendors) : IsPlugin(target_vendors[i])
         /\ \A i \in 1..Len(trail) :
              /\ trail[i].vendor = target_vendors[i]
              /\ trail[i].what = "skipped" <=> plugins[trail[i].vendor] # "initialized"
    /\ (rmethod = "search" /\ rpc = "done") =>
         /\ Len(trail) = Len(target_vendors)
         /\ search_result = ItemsOf(merge_search_results(ReturnedLists, rmax))
    /\ (rmethod = "fetch_page" /\ rpc = "done") =>
         /\ (trail = <<>> \/ trail[1].what = "raised") => fetch_result = "None"
         /\ (trail # <<>> /\ trail[1].what = "returned") => fetch_result = trail[1].value[1]
    /\ (rmethod = "list_sections" /\ rpc = "done") =>
         /\ Len(trail) = Len(target_vendors)
         /\ \A v \in PluginNames :
              /\ LastStep(v).what = "skipped" => sections_result[v] = NoSections
              /\ LastStep(v).what = "raised" => sections_result[v] = Sections(<<>>)
              /\ LastStep(v).what = "returned" =>
                   sections_result[v] = Sections(LastStep(v).value)

\* A search over a plugin that raised, a name that is no plugin, a plugin not
\* initialized and a plugin that returned results has returned those results.
C18_Witness ==
    /\ rmethod = "search"
    /\ rpc = "done"
    /\ Len(rvendors) > Len(target_vendors)
    /\ \E i, j, k \in 1..Len(trail) :
         /\ trail[i].what = "raised"
         /\ trail[j].what = "skipped"
         /\ trail[k].what = "returned"
         /\ i < k
         /\ trail[k].value # <<>>
    /\ search_result # <<>>

\* All the matches of the plugins whose search returned, plugin after plugin.
RECURSIVE AllMatches(_)
AllMatches(steps) ==
    IF steps = <<>> THEN <<>>
    ELSE Head(steps).matches \o AllMatches(Tail(steps))

ScoresOf(rs) == [i \in 1..Len(rs) |-> rs[i].score]

\* C30: search with a cap k >= 0 returns at most k results, in non-increasing
\* order of score, and their scores are the k highest of all the matches of
\* all the plugins queried, although each plugin is asked for its best k only.
C30_GlobalTopK ==
    (rmethod = "search" /\ rpc = "done" /\ rmax >= 0) =>
        /\ Len(search_result) <= rmax
        /\ \A i \in 1..(Len(search_result) - 1) :
              search_result[i].score >= search_result[i + 1].score
        /\ ScoresOf(search_result) = ScoresOf(Slice(Sort(Wrap(AllMatches(trail))), rmax))

\* Two plugins each had more matches than the cap and answered with their
\* best only; the result returned is the best of the plugin queried second.
C30_Witness ==
    /\ rmethod = "search"
    /\ rpc = "done"
    /\ rmax = 1
    /\ Len(search_result) = 1
    /\ \E i, j \in 1..Len(trail) :
         /\ i < j
         /\ Len(trail[i].value) = 1
         /\ Len(trail[i].matches) > 1
         /\ Len(trail[j].value) = 1
         /\ Len(trail[j].matches) > 1
         /\ search_result[1] = trail[j].value[1]
         /\ search_result[1].score > trail[i].value[1].score

\* ------------------------------------------------------------------------
\* Result merger: properties
\* ------------------------------------------------------------------------

Range(s) == {s[i] : i \in 1..Len(s)}

\* C10: with a cap k >= 0 the merged list is in non-increasing score order,
\* has min(k, number of input items) elements, holds input items without
\* repetition, and no omitted input item scores higher than a returned one.
C10_MergeTopK ==
    (mpc = "done" /\ max_results >= 0) =>
        LET all == Flatten(result_lists) IN
        /\ \A i \in 1..(Len(merged) - 1) : merged[i].score >= merged[i + 1].score
        /\ Len(merged) = (IF max_results < Len(all) THEN max_results ELSE Len(all))
        /\ Range(merged) \subseteq Range(all)
        /\ Cardinality(Range(merged)) = Len(merged)
        /\ \A x \in Range(all) \ Range(merged) : \A y \in Range(merged) : x.score <= y.score

\* Two lists were merged under a cap that cut items off; the result takes
\* items of both lists and its scores differ.
C10_Witness ==
    /\ mpc = "done"
    /\ Len(result_lists) = 2
    /\ max_results >= 2
    /\ Len(Flatten(result_lists)) > max_results
    /\ \E x, y \in Range(merged) : x.item[1] = 1 /\ y.item[1] = 2 /\ x.score # y.score
    /\ \E x \in Range(result_lists[2]) : x.score > result_lists[1][1].score

\* The place of an input item in the flattened input: earlier list first, and
\* within a list the earlier position first.
Before(a, b) == a[1] < b[1] \/ (a[1] = b[1] /\ a[2] < b[2])

\* C17: ties are broken stably: two returned results of equal score are in the
\* order they have in the flattened input.
C17_MergeStable ==
    mpc = "done" =>
        \A p, q \in 1..Len(merged) :
            (p < q /\ merged[p].score = merged[q].score) =>
                Before(merged[p].item, merged[q].item)

\* The merge returned two results of equal score from different lists and
\* one of equal score from the same list as another, behind a higher-scored
\* result that came later in the input.
C17_Witness ==
    /\ mpc = "done"
    /\ \E p, q \in 1..Len(merged) :
         /\ p < q
         /\ merged[p].score = merged[q].score
         /\ merged[p].item[1] < merged[q].item[1]
    /\ \E p, q \in 1..Len(merged) :
         /\ p < q
         /\ merged[p].score = merged[q].score
         /\ merged[p].item[1] = merged[q].item[1]
    /\ \E p, q \in 1..Len(merged) :
         /\ p < q
         /\ merged[p].score > merged[q].score
         /\ Before(merged[q].item, merged[p].item)

====
